---- MODULE Spec2Model ----
(***************************************************************************)
(* Block-document renderer of medarchive                                   *)
(* (src/src/components/editor/rich-editor-renderer.tsx).                   *)
(*                                                                         *)
(* Markup is a sequence of tokens (open tag, close tag, void element,      *)
(* text), so that the string concatenation of convertToHTML is sequence    *)
(* concatenation and the HTML parser's view of an interpolated data field  *)
(* is the operator Markup.  White-space-only text between the tags of the  *)
(* template literals is left out.                                          *)
(*                                                                         *)
(* The module also holds the password-hashing script of the server         *)
(* (src/server/scripts/hashExistingPasswords.js) with the User model's     *)
(* save hook and the login route, as the specification SpecMigrate.        *)
(*                                                                         *)
(* The routes of the server have a specification each: SpecAuth (register, *)
(* reset-password, password update, login), SpecArticles (moderation),     *)
(* SpecRoles (promote, demote, bulk update), SpecLikes and                 *)
(* SpecNotifications (requests that read a document and save it later).    *)
(***************************************************************************)
EXTENDS Integers, Sequences, FiniteSets, TLC

VARIABLES
    article,    \* article.content, the stored value the page passes as `content`
    content,    \* the `content` prop of the last render
    runCode,    \* the `runCode` prop of the last render
    html,       \* what the last call of convertToHTML produced
    surface,    \* containerRef.current.innerHTML: the tokens attached
    controls,   \* run control and result panel per instrumented code element
    stack,      \* the running calls: the effect's loop and click handlers
    console,    \* which capture console.log/info/warn/error are bound to
    flagEver,   \* history: a render has been asked with runCode set
    users,      \* the users collection: the stored password of each user
    original,   \* history: the stored passwords before the first run of the script
    script,     \* scripts/hashExistingPasswords.js: its run, its locals
    login,      \* the response of the last POST /login
    credentials,\* history: the route and password of each user's last password change
    roles,      \* the users collection: the role of each user
    articles,   \* the articles collection
    reply,      \* the last request the article and user routes have answered
    handlers,   \* the requests in flight: what each has read and not yet saved
    served,     \* history: how many requests with a read and a save have been taken
    notifications \* the notifications collection

rendererVars == <<article, content, runCode, html, surface, controls, stack, console, flagEver>>

\* the variables of the routes of the server
siteVars == <<credentials, roles, articles, reply, handlers, served, notifications>>

\* the variables of the routes that read a document and save it later
flightVars == <<handlers, served, notifications>>

\* what the routes that set a password leave alone
outsideAuth == <<rendererVars, original, script, roles, articles, reply, flightVars>>

\* what the user-management routes leave alone
outsideRoles == <<rendererVars, users, original, script, login, credentials, articles, flightVars>>

\* what the article routes leave alone
outsideArticles == <<rendererVars, users, original, script, login, credentials, roles, flightVars>>

\* what the notification routes leave alone
outsideNotifications == <<rendererVars, users, original, script, login, credentials, roles, articles>>

\* what the like route leaves alone
outsideLikes == <<rendererVars, users, original, script, login, credentials, roles>>

serverVars == <<users, original, script, login, siteVars>>

vars == <<rendererVars, serverVars>>

----------------------------------------------------------------------------
(* Tokens                                                                  *)

Attr(n, v) == [n |-> n, v |-> v]

Open(tag, cls, attrs) == [k |-> "open", tag |-> tag, cls |-> cls, attrs |-> attrs, text |-> ""]

Close(tag) == [k |-> "close", tag |-> tag, cls |-> {}, attrs |-> {}, text |-> ""]

Void(tag, cls, attrs) == [k |-> "void", tag |-> tag, cls |-> cls, attrs |-> attrs, text |-> ""]

Txt(s) == [k |-> "text", tag |-> "", cls |-> {}, attrs |-> {}, text |-> s]

----------------------------------------------------------------------------
(* The strings the data fields are drawn from, and how the HTML parser     *)
(* reads each when it is interpolated into element content (Markup) or     *)
(* into a double-quoted attribute value (AttrMarkup).                      *)

XssScript == "<script>alert(1)</script>"

XssHandler == "<img src=x onerror=alert(1)>"

XssJsUrl == "<a href=\"javascript:alert(1)\">x</a>"

XssQuote == "x\" onerror=\"alert(1)"

JsUrl == "javascript:alert(1)"

\* text that is an element with the class of the executable code elements
XssExec == "<code class=\"executable-code\">console.log(\"injected\")</code>"

\* source text that holds an iframe tag in a string literal
SrcFrame == "var s = \"<iframe src=x></iframe>\""

Markup(s) ==
    CASE s = "" -> <<>>
      [] s = XssScript -> <<Open("script", {}, {}), Txt("alert(1)"), Close("script")>>
      [] s = XssHandler -> <<Void("img", {}, {Attr("src", "x"), Attr("onerror", "alert(1)")})>>
      [] s = XssJsUrl -> <<Open("a", {}, {Attr("href", JsUrl)}), Txt("x"), Close("a")>>
      [] s = XssExec ->
            <<Open("code", {"executable-code"}, {}), Txt("console.log(\"injected\")"),
              Close("code")>>
      [] s = SrcFrame ->
            <<Txt("var s = \""), Open("iframe", {}, {Attr("src", "x")}), Close("iframe"),
              Txt("\"")>>
      [] OTHER -> <<Txt(s)>>

AttrMarkup(n, s) ==
    IF s = XssQuote THEN {Attr(n, "x"), Attr("onerror", "alert(1)")}
    ELSE {Attr(n, s)}

----------------------------------------------------------------------------
(* Blocks.  Every data record carries every field; "" , <<>> and an empty  *)
(* level stand for a field that is absent (all reads go through `?.` and   *)
(* `||`, which treat absent and empty alike).  A block of type "" is a     *)
(* block without a type field.  NullBlock is an entry of the block         *)
(* sequence that is null itself.                                           *)

NoData ==
    [text |-> "", level |-> <<>>, style |-> "", items |-> <<>>, hasItems |-> FALSE,
     caption |-> "", fileUrl |-> "", code |-> "", language |-> "",
     embed |-> "", serviceUrl |-> "", content |-> <<>>, hasContent |-> FALSE]

Block(type, data) == [isNull |-> FALSE, type |-> type, data |-> data]

NullBlock == [isNull |-> TRUE, type |-> "", data |-> NoData]

\* a list item that is an object with the fields `has`, of which content and text
\* hold c and t ("" also when the field is absent), and JSON.stringify gives json
ListItemWith(has, c, t, json) ==
    [isString |-> FALSE, str |-> "", content |-> c, text |-> t, json |-> json, has |-> has]

\* a list item: a string, or an object with content / text, or anything else
ListItem(isString, str, c, t, json) ==
    [isString |-> isString, str |-> str, content |-> c, text |-> t, json |-> json,
     has |-> (IF c # "" THEN {"content"} ELSE {}) \cup (IF t # "" THEN {"text"} ELSE {})]

\* a checklist item {text, checked}, or null
CheckItem(isNull, t, checked) == [isNull |-> isNull, text |-> t, checked |-> checked]

\* a table row: an array of cells, or something that is no array
Row(isArray, cells) == [isArray |-> isArray, cells |-> cells]

----------------------------------------------------------------------------
(* convertToHTML.  A result is [threw, html, log]: whether a TypeError     *)
(* left the function, the markup built, and the block types written to     *)
(* console.log by the default arm.                                         *)

Placeholder == <<Open("p", {}, {}), Txt("No content"), Close("p")>>

\* the text of one list item, lines 215-217
ItemText(item) ==
    IF item.isString THEN item.str
    ELSE IF item.content # "" THEN item.content
    ELSE IF item.text # "" THEN item.text
    ELSE item.json

RECURSIVE ListItemsHTML(_)
ListItemsHTML(items) ==
    IF items = <<>> THEN <<>>
    ELSE <<Open("li", {}, {})>> \o Markup(ItemText(Head(items))) \o <<Close("li")>>
         \o ListItemsHTML(Tail(items))

\* faulty variant of CellsHTML: the cells of a row are written last to first
RECURSIVE CellsHTMLReversed(_)
CellsHTMLReversed(cells) ==
    IF cells = <<>> THEN <<>>
    ELSE CellsHTMLReversed(Tail(cells))
         \o <<Open("td", {}, {})>> \o Markup(Head(cells)) \o <<Close("td")>>

RECURSIVE CellsHTML(_)
CellsHTML(cells) ==
    IF cells = <<>> THEN <<>>
    ELSE <<Open("td", {}, {})>> \o Markup(Head(cells)) \o <<Close("td")>>
         \o CellsHTML(Tail(cells))

RECURSIVE RowsHTML(_)
RowsHTML(rows) ==
    IF rows = <<>> THEN <<>>
    ELSE <<Open("tr", {}, {})>>
         \o (IF Head(rows).isArray THEN CellsHTML(Head(rows).cells) ELSE <<>>)
         \o <<Close("tr")>> \o RowsHTML(Tail(rows))

\* lines 292-297: item.checked on a null item is a TypeError
RECURSIVE ChecklistItemsHTML(_)
ChecklistItemsHTML(items) ==
    IF items = <<>> THEN [threw |-> FALSE, html |-> <<>>]
    ELSE IF Head(items).isNull THEN [threw |-> TRUE, html |-> <<>>]
    ELSE LET rest == ChecklistItemsHTML(Tail(items))
             one == <<Open("div", {"article-checklist-item"}, {}),
                      Void("input", {},
                           {Attr("type", "checkbox"), Attr("disabled", "")}
                           \cup (IF Head(items).checked THEN {Attr("checked", "")} ELSE {})),
                      Open("span", {}, {})>>
                    \o Markup(Head(items).text)
                    \o <<Close("span"), Close("div")>>
         IN [threw |-> rest.threw, html |-> one \o rest.html]

HeaderLevel(d) == IF d.level # <<>> /\ d.level[1] # 0 THEN d.level[1] ELSE 2

ParagraphHTML(d) ==
    <<Open("p", {"article-paragraph"}, {})>> \o Markup(d.text) \o <<Close("p")>>

HeaderHTML(d) ==
    LET level == HeaderLevel(d)
    IN <<Open("h" \o ToString(level),
              {"article-heading", "article-heading-" \o ToString(level)}, {})>>
       \o Markup(d.text) \o <<Close("h" \o ToString(level))>>

ListHTML(d) ==
    LET listType == IF d.style = "ordered" THEN "ol" ELSE "ul"
    IN <<Open(listType,
              {"article-list",
               IF listType = "ol" THEN "article-ordered-list" ELSE "article-unordered-list"},
              {})>>
       \o (IF d.hasItems THEN ListItemsHTML(d.items) ELSE <<>>)
       \o <<Close(listType)>>

QuoteHTML(d) ==
    <<Open("figure", {"article-quote"}, {}), Open("blockquote", {}, {})>>
    \o Markup(d.text) \o <<Close("blockquote")>>
    \o (IF d.caption # ""
        THEN <<Open("figcaption", {}, {})>> \o Markup(d.caption) \o <<Close("figcaption")>>
        ELSE <<>>)
    \o <<Close("figure")>>

ImageHTML(d) ==
    IF d.fileUrl # ""
    THEN <<Open("figure", {"article-image"}, {}),
           Void("img", {}, AttrMarkup("src", d.fileUrl) \cup AttrMarkup("alt", d.caption))>>
         \o (IF d.caption # ""
             THEN <<Open("figcaption", {}, {})>> \o Markup(d.caption) \o <<Close("figcaption")>>
             ELSE <<>>)
         \o <<Close("figure")>>
    ELSE <<>>

\* faulty variant of IsExecutable: every block with a language is executable
IsExecutableAnyLanguage(d) == d.language # ""

IsExecutable(d) == d.language = "javascript" \/ d.language = "js"

CodeHTML(d) ==
    <<Open("div", {"article-code"}, {}), Open("pre", {}, {}),
      Open("code",
           (IF IsExecutable(d) THEN {"executable-code"} ELSE {})
           \cup (IF d.language # "" THEN {"language-" \o d.language} ELSE {}),
           {})>>
    \o Markup(d.code)
    \o <<Close("code"), Close("pre"), Close("div")>>

\* faulty variant of EmbedUrl: service.url is read before embed
EmbedUrlServiceFirst(d) == IF d.serviceUrl # "" THEN d.serviceUrl ELSE d.embed

\* line 252: block.data?.embed || block.data?.service?.url || ''
EmbedUrl(d) == IF d.embed # "" THEN d.embed ELSE d.serviceUrl

AspectStyle == "position: relative; width: 100%; max-width: 900px; overflow: hidden; padding-top: 56.25%;"

AllowList == "accelerometer; autoplay; clipboard-write; encrypted-media; gyroscope; picture-in-picture"

EmbedHTML(d) ==
    IF EmbedUrl(d) # ""
    THEN <<Open("div", {"article-embed"}, {}),
           Open("div", {"article-embed-container"}, {Attr("style", AspectStyle)}),
           Open("iframe", {},
                AttrMarkup("src", EmbedUrl(d))
                \cup {Attr("frameborder", "0"), Attr("allow", AllowList),
                      Attr("allowfullscreen", ""),
                      Attr("style", "position: absolute; top: 0; left: 0; width: 100%; height: 100%;")}),
           Close("iframe"), Close("div")>>
         \o (IF d.caption # ""
             THEN <<Open("p", {"article-embed-caption"}, {})>> \o Markup(d.caption) \o <<Close("p")>>
             ELSE <<>>)
         \o <<Close("div")>>
    ELSE <<>>

DelimiterHTML == <<Void("hr", {"article-delimiter"}, {})>>

TableHTML(d) ==
    <<Open("div", {"article-table-wrapper"}, {}), Open("table", {"article-table"}, {}),
      Open("tbody", {}, {})>>
    \o (IF d.hasContent THEN RowsHTML(d.content) ELSE <<>>)
    \o <<Close("tbody"), Close("table"), Close("div")>>

ChecklistHTML(d) ==
    LET its == IF d.hasItems THEN ChecklistItemsHTML(d.items)
               ELSE [threw |-> FALSE, html |-> <<>>]
    IN [threw |-> its.threw,
        html |-> <<Open("div", {"article-checklist"}, {})>> \o its.html \o <<Close("div")>>]

KnownTypes ==
    {"paragraph", "header", "list", "quote", "image", "code", "embed", "delimiter",
     "table", "checklist"}

\* faulty variant of UnknownHTML: the default arm writes the block out
UnknownHTMLRendered(type) ==
    [threw |-> FALSE, html |-> <<Open("div", {"article-" \o type}, {}), Close("div")>>,
     log |-> <<type>>]

\* the default arm, lines 302-304: console.log('Unknown block type:', block.type)
UnknownHTML(type) == [threw |-> FALSE, html |-> <<>>, log |-> <<type>>]

\* one pass of the forEach callback, lines 199-305
BlockHTML(block) ==
    LET d == block.data
        ok(h) == [threw |-> FALSE, html |-> h, log |-> <<>>]
    IN IF block.isNull THEN [threw |-> TRUE, html |-> <<>>, log |-> <<>>]
       ELSE CASE block.type = "paragraph" -> ok(ParagraphHTML(d))
              [] block.type = "header" -> ok(HeaderHTML(d))
              [] block.type = "list" -> ok(ListHTML(d))
              [] block.type = "quote" -> ok(QuoteHTML(d))
              [] block.type = "image" -> ok(ImageHTML(d))
              [] block.type = "code" -> ok(CodeHTML(d))
              [] block.type = "embed" -> ok(EmbedHTML(d))
              [] block.type = "delimiter" -> ok(DelimiterHTML)
              [] block.type = "table" -> ok(TableHTML(d))
              [] block.type = "checklist" ->
                    [threw |-> ChecklistHTML(d).threw, html |-> ChecklistHTML(d).html,
                     log |-> <<>>]
              [] OTHER -> UnknownHTML(block.type)

\* faulty variant of BlocksHTML: each block's markup is put before the markup
\* built so far
RECURSIVE BlocksHTMLPrepend(_)
BlocksHTMLPrepend(blocks) ==
    IF blocks = <<>> THEN [threw |-> FALSE, html |-> <<>>, log |-> <<>>]
    ELSE LET one == BlockHTML(Head(blocks))
         IN IF one.threw THEN [threw |-> TRUE, html |-> <<>>, log |-> one.log]
            ELSE LET rest == BlocksHTMLPrepend(Tail(blocks))
                 IN [threw |-> rest.threw,
                     html |-> IF rest.threw THEN <<>> ELSE rest.html \o one.html,
                     log |-> one.log \o rest.log]

RECURSIVE BlocksHTML(_)
BlocksHTML(blocks) ==
    IF blocks = <<>> THEN [threw |-> FALSE, html |-> <<>>, log |-> <<>>]
    ELSE LET one == BlockHTML(Head(blocks))
         IN IF one.threw THEN [threw |-> TRUE, html |-> <<>>, log |-> one.log]
            ELSE LET rest == BlocksHTML(Tail(blocks))
                 IN [threw |-> rest.threw,
                     html |-> IF rest.threw THEN <<>> ELSE one.html \o rest.html,
                     log |-> one.log \o rest.log]

(* The content prop: null, undefined, an object without a blocks field, an *)
(* object whose blocks field is no array, or a document.                   *)
Content(kind, blocks) == [kind |-> kind, blocks |-> blocks]

Falsy(c) == c.kind \in {"null", "undefined"}

\* faulty variant of DataAfterConvert: the converter consumes the blocks it reads
DataAfterConvertShifted(data) == [data EXCEPT !.blocks = <<>>]

\* the argument after the call: lines 192-309 assign to `html` only, never to
\* data, data.blocks, a block or its data
DataAfterConvert(data) == data

convertToHTML(data) ==
    IF Falsy(data) \/ data.kind \in {"noblocks", "badblocks"}
    THEN [threw |-> FALSE, html |-> Placeholder, log |-> <<>>]
    ELSE BlocksHTML(data.blocks)

----------------------------------------------------------------------------
(* DOMPurify.sanitize(html, {ADD_TAGS, ADD_ATTR}), lines 31-34, by its     *)
(* policy: an element outside the allow-list is removed (its content kept, *)
(* except the content of a script element), an attribute outside the       *)
(* allow-list is removed, and so is a URI attribute with a script URL.     *)

ADD_TAGS == {"iframe"}

ADD_ATTR == {"allow", "allowfullscreen", "frameborder", "scrolling"}

DefaultTags ==
    {"p", "h1", "h2", "h3", "h4", "h5", "h6", "ol", "ul", "li", "figure", "blockquote",
     "figcaption", "img", "div", "pre", "code", "hr", "table", "tbody", "tr", "td",
     "input", "span", "a", "strong"}

DefaultAttrs == {"class", "src", "href", "alt", "style", "type", "checked", "disabled"}

UriAttrs == {"src", "href"}

EventAttrs == {"onerror", "onclick", "onload"}

ForbidContents == {"script"}

IsScriptUrl(v) == v = JsUrl

CleanAttrs(t) ==
    [t EXCEPT !.attrs = {a \in t.attrs :
                            /\ a.n \in DefaultAttrs \cup ADD_ATTR
                            /\ ~(a.n \in UriAttrs /\ IsScriptUrl(a.v))}]

RECURSIVE SanitizeFrom(_, _)
SanitizeFrom(ts, drop) ==
    IF ts = <<>> THEN <<>>
    ELSE LET t == Head(ts)
         IN IF drop # ""
            THEN SanitizeFrom(Tail(ts), IF t.k = "close" /\ t.tag = drop THEN "" ELSE drop)
            ELSE IF t.k = "text" THEN <<t>> \o SanitizeFrom(Tail(ts), "")
            ELSE IF t.tag \in DefaultTags \cup ADD_TAGS
                 THEN <<CleanAttrs(t)>> \o SanitizeFrom(Tail(ts), "")
            ELSE IF t.k = "open" /\ t.tag \in ForbidContents
                 THEN SanitizeFrom(Tail(ts), t.tag)
            ELSE SanitizeFrom(Tail(ts), "")

Sanitize(ts) == SanitizeFrom(ts, "")

\* a token that executes script when it is attached to a live document
Active(t) ==
    \/ t.k \in {"open", "void"} /\ t.tag = "script"
    \/ \E a \in t.attrs : a.n \in EventAttrs \/ (a.n \in UriAttrs /\ IsScriptUrl(a.v))

----------------------------------------------------------------------------
(* The DOM queries of the effect, on the token sequence.                   *)

\* nesting depth of the tokens i+1 .. j, relative to the element opened at i
RECURSIVE DepthAt(_, _, _)
DepthAt(ts, i, j) ==
    IF j <= i THEN 1
    ELSE DepthAt(ts, i, j - 1)
         + (IF ts[j].k = "open" THEN 1 ELSE IF ts[j].k = "close" THEN -1 ELSE 0)

\* index of the close tag of the element opened at i (Len+1 when it is unclosed)
ElementEnd(ts, i) ==
    IF ts[i].k # "open" THEN i
    ELSE LET ends == {j \in (i + 1)..Len(ts) : DepthAt(ts, i, j) = 0}
         IN IF ends = {} THEN Len(ts) + 1
            ELSE CHOOSE j \in ends : \A j2 \in ends : j <= j2

RECURSIVE JoinText(_, _, _)
JoinText(ts, from, to) ==
    IF from > to THEN ""
    ELSE (IF ts[from].k = "text" THEN ts[from].text ELSE "") \o JoinText(ts, from + 1, to)

\* element.textContent
TextContent(ts, i) == JoinText(ts, i + 1, ElementEnd(ts, i) - 1)

\* querySelectorAll('pre code'): the code elements inside a pre element
InPre(ts, i) ==
    Cardinality({j \in 1..(i - 1) : ts[j].k = "open" /\ ts[j].tag = "pre"})
    > Cardinality({j \in 1..(i - 1) : ts[j].k = "close" /\ ts[j].tag = "pre"})

PreCode(ts) == {i \in 1..Len(ts) : ts[i].k = "open" /\ ts[i].tag = "code" /\ InPre(ts, i)}

\* querySelectorAll('.executable-code'), in document order
ExecutableCode(ts) ==
    {i \in 1..Len(ts) : ts[i].k \in {"open", "void"} /\ "executable-code" \in ts[i].cls}

RECURSIVE InOrder(_)
InOrder(S) ==
    IF S = {} THEN <<>>
    ELSE LET m == CHOOSE x \in S : \A y \in S : x <= y
         IN <<m>> \o InOrder(S \ {m})

(* hljs.highlightElement(block), lines 40-44: the element gets the class   *)
(* hljs and its content is replaced by the highlighted form of its         *)
(* textContent, whose text is the same.                                    *)
RECURSIVE HighlightFrom(_, _)
HighlightFrom(ts, i) ==
    IF i > Len(ts) THEN <<>>
    ELSE IF i \in PreCode(ts)
         THEN LET e == ElementEnd(ts, i)
                  txt == TextContent(ts, i)
              IN <<[ts[i] EXCEPT !.cls = @ \cup {"hljs"}]>>
                 \o (IF txt = "" THEN <<>> ELSE <<Txt(txt)>>)
                 \o (IF e <= Len(ts) THEN <<ts[e]>> ELSE <<>>)
                 \o HighlightFrom(ts, e + 1)
         ELSE <<ts[i]>> \o HighlightFrom(ts, i + 1)

Highlight(ts) == HighlightFrom(ts, 1)

ErrorMarkup == <<Open("p", {"error"}, {}), Txt("Error rendering content"), Close("p")>>

----------------------------------------------------------------------------
(* Evaluated source text.  What `new Function(...)()` does with a source   *)
(* is a sequence of steps: a console call, an expression statement whose   *)
(* value is discarded, a click on the block's own run control, a throw, a  *)
(* return.  A source that is not listed does nothing observable.  The      *)
(* sources hold no character the HTML parser reads as markup, so that the  *)
(* textContent of the code element is the source itself.  SrcNested        *)
(* clicks its own run control while fewer than MaxDepth handlers run.      *)

MaxDepth == 2

Value(t, s, err) == [t |-> t, s |-> s, err |-> err]

Undefined == Value("undefined", "", "")

Null == Value("null", "", "")

Str(s) == Value("string", s, "")

Num(s) == Value("number", s, "")

\* an object, with what JSON.stringify(o, null, 2) gives
Obj(json) == Value("object", json, "")

\* an object whose toJSON throws new Error(msg)
ThrowingObj(msg) == Value("object", "", msg)

Op(op, ch, text, val) == [op |-> op, ch |-> ch, text |-> text, val |-> val]

ConsoleCall(ch, text) == Op("console", ch, text, Undefined)

ExprStmt(text) == Op("expr", "", text, Undefined)

ClickOwn == Op("click", "", "", Undefined)

Throw(msg) == Op("throw", "", msg, Undefined)

Return(val) == Op("return", "", "", val)

\* throw of a value that String() cannot convert: String(executionError) throws a
\* TypeError in the catch block of line 118
ThrowUnprintable == Op("throw", "unprintable", "Cannot convert object to primitive value", Undefined)

SrcHi == "console.log(\"hi\"); 42"

SrcReturn == "console.warn(\"w\"); return 42"

SrcBoom == "throw new Error(\"boom\")"

SrcSyntax == "let = ;"

SrcNested == "console.log(\"a\"); if (shallow()) ownButton().click(); console.log(\"b\"); return {\"n\": 1}"

SrcToJSON == "return {toJSON() {throw new Error(\"\\x3Cimg src=x onerror=alert(1)\\x3E\")}}"

SrcNull == "return null"

SrcAuto == "console.info(\"no document.write here\")"

SrcPython == "print(1)"

SrcInjected == "console.log(\"injected\")"

SrcUnprintable == "throw Object.create(null)"

Script(code) ==
    CASE code = SrcHi -> <<ConsoleCall("log", "hi"), ExprStmt("42")>>
      [] code = SrcReturn -> <<ConsoleCall("warn", "w"), Return(Num("42"))>>
      [] code = SrcBoom -> <<Throw("boom")>>
      [] code = SrcSyntax -> <<Throw("Unexpected token '='")>>
      [] code = SrcNested ->
            <<ConsoleCall("log", "a"), ClickOwn, ConsoleCall("log", "b"),
              Return(Obj("{\"n\": 1}"))>>
      [] code = SrcToJSON -> <<Return(ThrowingObj(XssHandler))>>
      [] code = SrcNull -> <<Return(Null)>>
      [] code = SrcAuto -> <<ConsoleCall("info", "no document.write here")>>
      [] code = SrcInjected -> <<ConsoleCall("log", "injected")>>
      [] code = SrcUnprintable -> <<ThrowUnprintable>>
      [] OTHER -> <<>>

\* line 174: codeContent.includes('<iframe') || ... '<html' || ... 'document.write',
\* on the strings above
AutoExecute(codeContent) == codeContent \in {SrcAuto, SrcFrame}

\* the `type` the override of console.<ch> records, lines 90-108
EntryType(ch) == IF ch = "warn" THEN "warning" ELSE ch

----------------------------------------------------------------------------
(* The calls in progress.  JavaScript runs them to completion, one inside  *)
(* the other: the effect's loop over the executable blocks at the bottom   *)
(* (when the render instruments), click handlers above it.  A handler's    *)
(* position in the stack identifies the evaluation: console = n means that *)
(* console.log/info/warn/error are the overrides installed by the handler  *)
(* at position n, and 0 that they are the functions of the page.  A        *)
(* negative value -(k+1) means that they are overrides left behind by a    *)
(* handler that has returned, which pass every call on to k.               *)

EffectFrame(todo) ==
    [kind |-> "effect", blk |-> 0, todo |-> todo, pc |-> 0, outputs |-> <<>>, orig |-> 0]

HandlerFrame(i, orig) ==
    [kind |-> "handler", blk |-> i, todo |-> <<>>, pc |-> 1, outputs |-> <<>>, orig |-> orig]

Entry(type, text, by) == [type |-> type, content |-> text, by |-> by]

\* a child of an output container: the outputDiv of a run, or the error div
OutputDiv(by, outputs, hasResult, result) ==
    [kind |-> "code-output", by |-> by, outputs |-> outputs, hasResult |-> hasResult,
     result |-> result, body |-> <<>>]

CodeErrorDiv(by, msg) ==
    [kind |-> "code-error", by |-> by, outputs |-> <<>>, hasResult |-> FALSE, result |-> "",
     body |-> <<Open("div", {"code-error"}, {}), Open("strong", {}, {}), Txt("Error:"),
                Close("strong")>> \o Markup(msg) \o <<Close("div")>>]

HandlerDepth(st) == Cardinality({n \in 1..Len(st) : st[n].kind = "handler"})

\* the console after a handler has returned without restoring it: its overrides,
\* whose outputs nobody reads any more, in front of the functions k they replaced
Stale(k) == IF k < 0 THEN k ELSE -(k + 1)

\* an override records the call and passes it to the function it replaced
RECURSIVE CallConsole(_, _, _)
CallConsole(st, c, e) ==
    IF c = 0 THEN st
    ELSE IF c < 0 THEN CallConsole(st, -c - 1, e)
    ELSE CallConsole([st EXCEPT ![c].outputs = Append(@, e)], st[c].orig, e)

\* faulty variant of ClickStart: the handler clears every output container
ClickStartClearsAll(ctl, st, i) ==
    /\ controls' = [j \in DOMAIN ctl |-> [ctl[j] EXCEPT !.panel = <<>>]]
    /\ stack' = Append(st, HandlerFrame(i, console))
    /\ console' = Len(st) + 1

\* lines 69-110: the handler of control i, called with the controls ctl and the
\* calls st in progress, clears the container and swaps the console
ClickStart(ctl, st, i) ==
    /\ controls' = [ctl EXCEPT ![i].panel = <<>>]
    /\ stack' = Append(st, HandlerFrame(i, console))
    /\ console' = Len(st) + 1

\* line 149 and line 155
Shown(v) == ~(v.t \in {"undefined", "null"} \/ (v.t = "string" /\ v.s = ""))

\* lines 122-170: restore the console, build the output, attach it
Finish(outputs, v) ==
    LET n == Len(stack)
        f == stack[n]
    IN /\ console' = f.orig
       /\ stack' = SubSeq(stack, 1, n - 1)
       /\ controls' =
            IF Shown(v) /\ v.t = "object" /\ v.err # ""
            THEN [controls EXCEPT ![f.blk].panel = <<CodeErrorDiv(n, v.err)>>]
            ELSE [controls EXCEPT ![f.blk].panel =
                        Append(@, OutputDiv(n, outputs, Shown(v), v.s))]

\* an exception leaves the handler's try block between lines 88 and 122: the
\* wrapper catch, lines 163-169, writes the error; lines 123-126 are not run
Abort(msg) ==
    LET n == Len(stack)
        f == stack[n]
    IN /\ console' = Stale(f.orig)
       /\ stack' = SubSeq(stack, 1, n - 1)
       /\ controls' = [controls EXCEPT ![f.blk].panel = <<CodeErrorDiv(n, msg)>>]

----------------------------------------------------------------------------
(* The documents the renders are given.                                    *)

MaxBlocks == 2

D(type) == Block(type, NoData)

Paragraph(text) == Block("paragraph", [NoData EXCEPT !.text = text])

Header(text, level) == Block("header", [NoData EXCEPT !.text = text, !.level = level])

List(style, items) ==
    Block("list", [NoData EXCEPT !.style = style, !.items = items, !.hasItems = TRUE])

Quote(text, caption) == Block("quote", [NoData EXCEPT !.text = text, !.caption = caption])

Image(url, caption) == Block("image", [NoData EXCEPT !.fileUrl = url, !.caption = caption])

Code(code, language) == Block("code", [NoData EXCEPT !.code = code, !.language = language])

Embed(embed, serviceUrl) ==
    Block("embed", [NoData EXCEPT !.embed = embed, !.serviceUrl = serviceUrl])

Table(rows) == Block("table", [NoData EXCEPT !.content = rows, !.hasContent = TRUE])

Checklist(items) == Block("checklist", [NoData EXCEPT !.items = items, !.hasItems = TRUE])

VideoUrl == "https://example.com/video"

ServiceUrl == "https://example.com/service"

\* the blocks of the render machine: what evaluation and attachment depend on
MachineBlocks ==
    {Paragraph(XssScript), Paragraph(XssExec),
     Code(SrcHi, "javascript"), Code(SrcBoom, "js"),
     Code(SrcNested, "javascript"),
     Code(SrcToJSON, "javascript"), Code(SrcAuto, "javascript"), Code(SrcFrame, "js"),
     Code(SrcPython, "python"), Code(SrcUnprintable, "js"),
     NullBlock}

\* the blocks of the converter: every kind, with the shapes its arm reads
BlockUniverse ==
    MachineBlocks \cup
    {Paragraph("Hello"), Paragraph(XssHandler), D("paragraph"),
     Header("Title", <<>>), Header("Title", <<3>>), Header("Title", <<7>>),
     Header("Title", <<0>>), Header("Title", <<-1>>),
     List("ordered", <<ListItem(TRUE, "one", "", "", ""),
                       ListItem(FALSE, "", "two", "", "{\"content\":\"two\"}")>>),
     List("unordered", <<ListItem(FALSE, "", "", "three", "{\"text\":\"three\"}"),
                         ListItem(FALSE, "", "", "", "null")>>),
     List("unordered", <<ListItemWith({"content", "items"}, "", "",
                                      "{\"content\":\"\",\"items\":[]}"),
                         ListItem(TRUE, "four", "", "", "")>>),
     D("list"),
     Quote("Primum non nocere", "Hippocrates"), Quote("Primum non nocere", ""),
     Image("https://example.com/a.png", "Figure 1"), Image("https://example.com/a.png", ""),
     Image("", "Figure 1"), Image(XssQuote, ""),
     Code(SrcReturn, "js"), Code(SrcNull, "javascript"), Code(SrcSyntax, "js"),
     Code("x = 1", ""), Code("x = 1", "JavaScript"),
     Embed(VideoUrl, ""), Embed("", VideoUrl), Embed(JsUrl, ""), D("embed"),
     Embed(VideoUrl, ServiceUrl),
     D("delimiter"),
     Table(<<Row(TRUE, <<"a", "b">>), Row(TRUE, <<"c", "d">>)>>),
     Table(<<Row(FALSE, <<>>), Row(TRUE, <<XssHandler>>)>>),
     Table(<<Row(TRUE, <<"a", XssHandler, "b">>), Row(TRUE, <<>>)>>),
     Checklist(<<CheckItem(FALSE, "done", TRUE), CheckItem(FALSE, "todo", FALSE)>>),
     Checklist(<<CheckItem(FALSE, "done", TRUE), CheckItem(TRUE, "", FALSE)>>),
     D("video"), D("")}

SeqsUpTo(S, n) == UNION {[1..m -> S] : m \in 0..n}

NotDocuments ==
    {Content("null", <<>>), Content("undefined", <<>>), Content("noblocks", <<>>),
     Content("badblocks", <<>>)}

Documents(S) == {Content("doc", bs) : bs \in SeqsUpTo(S, MaxBlocks)}

----------------------------------------------------------------------------
(* The server's users and their passwords (src/server/models/User.js,      *)
(* scripts/hashExistingPasswords.js, routes/auth.js).  A password string   *)
(* is the sequence of its parts, so that a bcrypt hash is the prefix       *)
(* "$2a$10$", the salt and the hashed string, <<>> is an absent password,  *)
(* and startsWith looks at the first part.                                 *)

MaxUsers == 2

MaxRuns == 2

UserIds == 1..MaxUsers

Salts == {"salt1", "salt2"}

BcryptPrefix == "$2a$10$"

\* bcrypt.hash(s, salt), with salt from bcrypt.genSalt(10)
BcryptHash(s, salt) == <<BcryptPrefix, salt>> \o s

\* bcrypt.compare(s, hash): s hashed with the salt of `hash` is `hash`
BcryptCompare(s, hash) ==
    /\ Len(hash) >= 2
    /\ hash[1] = BcryptPrefix
    /\ hash = BcryptHash(s, hash[2])

Hunter == <<"hunter22">>

\* a plain-text password that starts with '$2'
Dollar == <<"$2fast4u">>

\* password.startsWith('$2')
StartsWithDollar2(password) ==
    password # <<>> /\ password[1] \in {BcryptPrefix, Dollar[1]}

\* what the collection may hold before the script is run
StoredPasswords == {Hunter, Dollar, <<>>, BcryptHash(Hunter, "salt1")}

\* userSchema.pre('save'), User.js lines 64-78: what is stored for a password
\* that is or is not modified
PreSave(password, isModified, salt) ==
    IF isModified THEN BcryptHash(password, salt) ELSE password

NoScript ==
    [run |-> 0, phase |-> "idle", found |-> <<>>, pos |-> 0, updatedCount |-> 0,
     failed |-> {}, prevCount |-> 0, prevFailed |-> {}]

NoLogin == [user |-> 0, password |-> <<>>, status |-> 0]

NoCredential == [route |-> "none", password |-> <<>>]

\* no request has reached the routes of the server
NoReply == [route |-> "none", user |-> 0, target |-> 0, sent |-> "", code |-> 0]

MaxHandlers == 2

MaxRequests == 4

HandlerIds == 1..MaxHandlers

\* a handler that is not running
NoRequest == [route |-> "none", user |-> 0, target |-> 0, doc |-> <<>>, todo |-> {}]

\* no request is in flight and no notification is stored
FlightsOff ==
    /\ handlers = [h \in HandlerIds |-> NoRequest]
    /\ served = 0
    /\ notifications = <<>>

SiteOff ==
    /\ credentials = [u \in UserIds |-> NoCredential]
    /\ roles = [u \in UserIds |-> "user"]
    /\ articles = <<>>
    /\ reply = NoReply
    /\ FlightsOff

\* the server is not part of the run: no user, no script, no request
ServerOff ==
    /\ users = <<>>
    /\ original = <<>>
    /\ script = NoScript
    /\ login = NoLogin
    /\ SiteOff

----------------------------------------------------------------------------
(* The component.                                                          *)

NoCall == [called |-> FALSE, threw |-> FALSE, html |-> <<>>, log |-> <<>>]

Called(r) == [called |-> TRUE, threw |-> r.threw, html |-> r.html, log |-> r.log]

\* before the first run of the effect there is no last render
NotRendered == Content("none", <<>>)

Init ==
    /\ article \in Documents(MachineBlocks)
    /\ content = NotRendered
    /\ runCode = FALSE
    /\ html = NoCall
    /\ surface = <<>>
    /\ controls = <<>>
    /\ stack = <<>>
    /\ console = 0
    /\ flagEver = FALSE
    /\ ServerOff

\* faulty variant of Instrumented: the runCode guard is missing
InstrumentedUnguarded(rc, ts) == InOrder(ExecutableCode(ts))

\* lines 47-50: the blocks the effect instruments
Instrumented(rc, ts) == IF rc THEN InOrder(ExecutableCode(ts)) ELSE <<>>

\* the useEffect callback up to the loop over the executable blocks, lines 22-50
\* and 183-188
RenderEffect(c, rc) ==
    /\ content' = c
    /\ runCode' = rc
    /\ flagEver' = (flagEver \/ rc)
    /\ console' = console
    /\ IF Falsy(c)
       THEN UNCHANGED <<html, surface, controls, stack>>
       ELSE LET conv == convertToHTML(c)
                sanitizedHtml == Sanitize(conv.html)
                attached == Highlight(sanitizedHtml)
            IN /\ html' = Called(conv)
               /\ controls' = <<>>
               /\ IF conv.threw
                  THEN surface' = ErrorMarkup /\ stack' = <<>>
                  ELSE /\ surface' = attached
                       /\ stack' = IF Instrumented(rc, attached) = <<>> THEN <<>>
                                   ELSE <<EffectFrame(Instrumented(rc, attached))>>

Render ==
    /\ stack = <<>>
    /\ \E c \in NotDocuments \cup {article}, rc \in BOOLEAN :
          /\ RenderEffect(c, rc)
          /\ article' = IF c = article THEN DataAfterConvert(article) ELSE article
    /\ UNCHANGED serverVars

\* one pass of the loop, lines 51-180: button, container, handler, auto-execute
Instrument ==
    /\ stack # <<>>
    /\ stack[Len(stack)].kind = "effect"
    /\ stack[Len(stack)].todo # <<>>
    /\ LET n == Len(stack)
           i == Head(stack[n].todo)
           codeContent == TextContent(surface, i)
           rest == [stack EXCEPT ![n].todo = Tail(@)]
           added == controls @@ (i :> [code |-> codeContent, panel |-> <<>>])
       IN IF AutoExecute(codeContent)
          THEN ClickStart(added, rest, i)
          ELSE controls' = added /\ stack' = rest /\ console' = console
    /\ UNCHANGED <<article, content, runCode, html, surface, flagEver>>
    /\ UNCHANGED serverVars

\* the loop is over: the effect returns
EffectDone ==
    /\ stack # <<>>
    /\ stack[Len(stack)].kind = "effect"
    /\ stack[Len(stack)].todo = <<>>
    /\ stack' = SubSeq(stack, 1, Len(stack) - 1)
    /\ UNCHANGED <<article, content, runCode, html, surface, controls, console, flagEver>>
    /\ UNCHANGED serverVars

\* the user clicks a run control; nothing else is running
Trigger ==
    /\ stack = <<>>
    /\ \E i \in DOMAIN controls : ClickStart(controls, stack, i)
    /\ UNCHANGED <<article, content, runCode, html, surface, flagEver>>
    /\ UNCHANGED serverVars

Running == stack # <<>> /\ stack[Len(stack)].kind = "handler"

Top == stack[Len(stack)]

Ops == Script(controls[Top.blk].code)

NextOp == Ops[Top.pc]

Advanced == [stack EXCEPT ![Len(stack)].pc = @ + 1]

\* console.log / info / warn / error called by the evaluated code
EvalConsole ==
    /\ Running /\ Top.pc <= Len(Ops) /\ NextOp.op = "console"
    /\ stack' = CallConsole(Advanced, console,
                            Entry(EntryType(NextOp.ch), NextOp.text, Len(stack)))
    /\ UNCHANGED <<article, content, runCode, html, surface, controls, console, flagEver>>
    /\ UNCHANGED serverVars

\* an expression statement: its value is not the function's return value
EvalExpr ==
    /\ Running /\ Top.pc <= Len(Ops) /\ NextOp.op = "expr"
    /\ stack' = Advanced
    /\ UNCHANGED <<article, content, runCode, html, surface, controls, console, flagEver>>
    /\ UNCHANGED serverVars

\* the evaluated code clicks the run control of its own block
EvalClick ==
    /\ Running /\ Top.pc <= Len(Ops) /\ NextOp.op = "click"
    /\ IF HandlerDepth(stack) < MaxDepth
       THEN ClickStart(controls, Advanced, Top.blk)
       ELSE stack' = Advanced /\ UNCHANGED <<controls, console>>
    /\ UNCHANGED <<article, content, runCode, html, surface, flagEver>>
    /\ UNCHANGED serverVars

\* lines 117-120, then the rest of the handler
EvalThrow ==
    /\ Running /\ Top.pc <= Len(Ops) /\ NextOp.op = "throw"
    /\ IF NextOp.ch = "unprintable"
       THEN Abort(NextOp.text)
       ELSE LET result == "Error: " \o NextOp.text
            IN Finish(Append(Top.outputs, Entry("error", result, Len(stack))), Str(result))
    /\ UNCHANGED <<article, content, runCode, html, surface, flagEver>>
    /\ UNCHANGED serverVars

\* line 116 returns a value, then the rest of the handler
EvalReturn ==
    /\ Running /\ Top.pc <= Len(Ops) /\ NextOp.op = "return"
    /\ Finish(Top.outputs, NextOp.val)
    /\ UNCHANGED <<article, content, runCode, html, surface, flagEver>>
    /\ UNCHANGED serverVars

\* the function body ends without a return: result is undefined
EvalEnd ==
    /\ Running /\ Top.pc > Len(Ops)
    /\ Finish(Top.outputs, Undefined)
    /\ UNCHANGED <<article, content, runCode, html, surface, flagEver>>
    /\ UNCHANGED serverVars

Next ==
    \/ Render
    \/ Instrument
    \/ EffectDone
    \/ Trigger
    \/ EvalConsole
    \/ EvalExpr
    \/ EvalClick
    \/ EvalThrow
    \/ EvalReturn
    \/ EvalEnd

Spec == Init /\ [][Next]_vars

(* convertToHTML alone, on every document of the converter's universe.     *)
InitConvert ==
    /\ article \in NotDocuments \cup Documents(BlockUniverse)
    /\ content = article
    /\ runCode = FALSE
    /\ html = NoCall
    /\ surface = <<>>
    /\ controls = <<>>
    /\ stack = <<>>
    /\ console = 0
    /\ flagEver = FALSE
    /\ ServerOff

Convert ==
    /\ ~html.called
    /\ html' = Called(convertToHTML(content))
    /\ UNCHANGED <<article, content, runCode, surface, controls, stack, console, flagEver>>
    /\ UNCHANGED serverVars

NextConvert == Convert

SpecConvert == InitConvert /\ [][NextConvert]_vars

(* The password-hashing script and the logins, on a collection of         *)
(* MaxUsers users; the script is run up to MaxRuns times.                  *)
InitMigrate ==
    /\ article = Content("doc", <<>>)
    /\ content = NotRendered
    /\ runCode = FALSE
    /\ html = NoCall
    /\ surface = <<>>
    /\ controls = <<>>
    /\ stack = <<>>
    /\ console = 0
    /\ flagEver = FALSE
    /\ users \in [UserIds -> StoredPasswords]
    /\ original = users
    /\ script = NoScript
    /\ login = NoLogin
    /\ SiteOff

\* lines 13-27: connect, User.find({}), updatedCount = 0
StartScript ==
    /\ script.phase \in {"idle", "done"}
    /\ script.run < MaxRuns
    /\ script' = [run |-> script.run + 1, phase |-> "running", found |-> users, pos |-> 1,
                  updatedCount |-> 0, failed |-> {},
                  prevCount |-> script.updatedCount, prevFailed |-> script.failed]
    /\ UNCHANGED <<users, original, login, siteVars>>
    /\ UNCHANGED rendererVars

\* faulty variant of AlreadyHashed: no password is taken for a hash
AlreadyHashedNever(password) == password = <<>>

\* line 34, negated: the users of the else branch
AlreadyHashed(password) == password = <<>> \/ StartsWithDollar2(password)

\* one pass of the loop, lines 30-46; hashing or saving may fail, which the
\* catch of line 43 logs
ProcessUser ==
    /\ script.phase = "running"
    /\ script.pos <= MaxUsers
    /\ LET u == script.pos
           password == script.found[u]
       IN IF AlreadyHashed(password)
          THEN /\ script' = [script EXCEPT !.pos = @ + 1]
               /\ users' = users
          ELSE \E salt \in Salts, saveSalt \in Salts, saved \in BOOLEAN :
                  IF saved
                  THEN /\ users' = [users EXCEPT
                                      ![u] = PreSave(BcryptHash(password, salt), TRUE, saveSalt)]
                       /\ script' = [script EXCEPT !.pos = @ + 1, !.updatedCount = @ + 1]
                  ELSE /\ users' = users
                       /\ script' = [script EXCEPT !.pos = @ + 1, !.failed = @ \cup {u}]
    /\ UNCHANGED <<original, login, siteVars>>
    /\ UNCHANGED rendererVars

\* lines 48-55: the summary, the connection is closed, the process exits
FinishScript ==
    /\ script.phase = "running"
    /\ script.pos > MaxUsers
    /\ script' = [script EXCEPT !.phase = "done"]
    /\ UNCHANGED <<users, original, login, siteVars>>
    /\ UNCHANGED rendererVars

\* POST /login, routes/auth.js lines 84-103: 400 'Invalid credentials' unless
\* the user is found and bcrypt.compare succeeds
Login ==
    /\ \E u \in UserIds, password \in {Hunter, Dollar} :
          login' = [user |-> u, password |-> password,
                    status |-> IF u \in DOMAIN users /\ BcryptCompare(password, users[u])
                               THEN 200 ELSE 400]
    /\ UNCHANGED <<users, original, script, siteVars>>
    /\ UNCHANGED rendererVars

NextMigrate ==
    \/ StartScript
    \/ ProcessUser
    \/ FinishScript
    \/ Login

SpecMigrate == InitMigrate /\ [][NextMigrate]_vars

----------------------------------------------------------------------------
(* The routes that set a password: register, reset-password and the        *)
(* password update of server.js.  The users collection starts empty; a     *)
(* user is an index of UserIds, standing for his email, his name and the   *)
(* token that names him.                                                   *)

Passwords == {Hunter, Dollar}

\* no page shows an article
RendererOff ==
    /\ article = Content("doc", <<>>)
    /\ content = NotRendered
    /\ runCode = FALSE
    /\ html = NoCall
    /\ surface = <<>>
    /\ controls = <<>>
    /\ stack = <<>>
    /\ console = 0
    /\ flagEver = FALSE

InitAuth ==
    /\ RendererOff
    /\ users = <<>>
    /\ original = <<>>
    /\ script = NoScript
    /\ login = NoLogin
    /\ SiteOff

\* user.save() of a document whose password path is set to `password`: the
\* path is modified when the document is new or the value differs from the
\* stored one
Saved(u, password, salt) ==
    PreSave(password, u \notin DOMAIN users \/ users[u] # password, salt)

\* POST /register, routes/auth.js lines 23-49 (the answer of lines 51-80 is not
\* part of the state); 400 'User already exists' changes nothing
Register ==
    /\ \E u \in UserIds \ DOMAIN users, password \in Passwords, salt \in Salts, saveSalt \in Salts :
          /\ users' = (u :> Saved(u, BcryptHash(password, salt), saveSalt)) @@ users
          /\ credentials' = [credentials EXCEPT ![u] = [route |-> "register", password |-> password]]
    /\ UNCHANGED login
    /\ UNCHANGED outsideAuth

\* POST /reset-password, routes/auth.js lines 391-430, with a token that
\* verifies and names an existing user
ResetPassword ==
    /\ \E u \in DOMAIN users, password \in Passwords, salt \in Salts, saveSalt \in Salts :
          /\ users' = [users EXCEPT ![u] = Saved(u, BcryptHash(password, salt), saveSalt)]
          /\ credentials' = [credentials EXCEPT ![u] = [route |-> "reset", password |-> password]]
    /\ UNCHANGED login
    /\ UNCHANGED outsideAuth

\* PUT /api/users/password, server.js lines 179-203, by an authenticated user
UpdatePassword ==
    /\ \E u \in DOMAIN users, newPassword \in Passwords, saveSalt \in Salts :
          /\ users' = [users EXCEPT ![u] = Saved(u, newPassword, saveSalt)]
          /\ credentials' = [credentials EXCEPT ![u] = [route |-> "update", password |-> newPassword]]
    /\ UNCHANGED login
    /\ UNCHANGED outsideAuth

NextAuth ==
    \/ Register
    \/ ResetPassword
    \/ UpdatePassword
    \/ Login

SpecAuth == InitAuth /\ [][NextAuth]_vars

----------------------------------------------------------------------------
(* The article routes: create, update, submit for review, approve, reject, *)
(* and the approve route of server.js.  Every request comes from an        *)
(* authenticated user (the `auth` middleware has set req.user).            *)

MaxArticles == 2

ArticleIds == 1..MaxArticles

Roles == {"user", "writer", "admin", "owner"}

\* authorize(...allowed), middleware lines 35-58
Authorize(u, allowed) == roles[u] = "owner" \/ roles[u] \in allowed

\* new Article({author, status}) with the defaults of the schema; version is
\* the __v of the document
Article(author, status) ==
    [author |-> author, status |-> status, likes |-> 0, likedBy |-> <<>>, version |-> 0]

\* req.body.status: absent, or a value articleValidation lets through
SentStatus == {"", "draft", "published"}

Replied(route, u, target, sent, code) ==
    reply' = [route |-> route, user |-> u, target |-> target, sent |-> sent, code |-> code]

InitArticles ==
    /\ RendererOff
    /\ users = <<>>
    /\ original = <<>>
    /\ script = NoScript
    /\ login = NoLogin
    /\ credentials = [u \in UserIds |-> NoCredential]
    /\ roles \in [UserIds -> Roles]
    /\ articles = <<>>
    /\ reply = NoReply
    /\ FlightsOff

\* POST / (new article), comments.js lines 826-882
CreateArticle ==
    /\ \E u \in UserIds, sent \in SentStatus :
          IF ~Authorize(u, {"writer", "admin"})
          THEN Replied("create", u, 0, sent, 403) /\ articles' = articles
          ELSE LET a == Cardinality(DOMAIN articles) + 1
               IN /\ a \in ArticleIds
                  /\ articles' = (a :> Article(u, IF sent # "" THEN sent ELSE "draft")) @@ articles
                  /\ Replied("create", u, a, sent, 201)
    /\ UNCHANGED outsideArticles

\* PUT /:id (article update), comments.js lines 885-954
UpdateArticle ==
    /\ \E u \in UserIds, a \in ArticleIds, sent \in SentStatus :
          IF a \notin DOMAIN articles
          THEN Replied("update", u, a, sent, 404) /\ articles' = articles
          ELSE IF articles[a].author # u /\ roles[u] # "admin"
          THEN Replied("update", u, a, sent, 403) /\ articles' = articles
          ELSE /\ articles' = [articles EXCEPT
                                  ![a].status = IF sent # "" THEN sent ELSE @]
               /\ Replied("update", u, a, sent, 200)
    /\ UNCHANGED outsideArticles

\* POST /:id/submit-for-review, comments.js lines 287-321
SubmitForReview ==
    /\ \E u \in UserIds, a \in ArticleIds :
          IF a \notin DOMAIN articles
          THEN Replied("submit", u, a, "", 404) /\ articles' = articles
          ELSE IF articles[a].author # u
          THEN Replied("submit", u, a, "", 403) /\ articles' = articles
          ELSE IF articles[a].status = "draft"
          THEN /\ articles' = [articles EXCEPT ![a].status = "pending"]
               /\ Replied("submit", u, a, "", 200)
          ELSE Replied("submit", u, a, "", 400) /\ articles' = articles
    /\ UNCHANGED outsideArticles

\* POST /:id/approve, comments.js lines 338-385
Approve ==
    /\ \E u \in UserIds, a \in ArticleIds :
          IF ~Authorize(u, {"admin", "owner"})
          THEN Replied("approve", u, a, "", 403) /\ articles' = articles
          ELSE IF a \notin DOMAIN articles
          THEN Replied("approve", u, a, "", 404) /\ articles' = articles
          ELSE IF articles[a].status # "pending"
          THEN Replied("approve", u, a, "", 400) /\ articles' = articles
          ELSE /\ articles' = [articles EXCEPT ![a].status = "published"]
               /\ Replied("approve", u, a, "", 200)
    /\ UNCHANGED outsideArticles

\* POST /:id/reject, comments.js lines 388-438
Reject ==
    /\ \E u \in UserIds, a \in ArticleIds :
          IF ~Authorize(u, {"admin", "owner"})
          THEN Replied("reject", u, a, "", 403) /\ articles' = articles
          ELSE IF a \notin DOMAIN articles
          THEN Replied("reject", u, a, "", 404) /\ articles' = articles
          ELSE IF articles[a].status # "pending"
          THEN Replied("reject", u, a, "", 400) /\ articles' = articles
          ELSE /\ articles' = [articles EXCEPT ![a].status = "draft"]
               /\ Replied("reject", u, a, "", 200)
    /\ UNCHANGED outsideArticles

\* POST /api/articles/:articleId/approve, server.js lines 470-492
ApproveArticle ==
    /\ \E u \in UserIds, a \in ArticleIds :
          IF ~Authorize(u, {"admin"})
          THEN Replied("approve", u, a, "", 403) /\ articles' = articles
          ELSE IF a \notin DOMAIN articles
          THEN Replied("approve", u, a, "", 404) /\ articles' = articles
          ELSE /\ articles' = [articles EXCEPT ![a].status = "published"]
               /\ Replied("approve", u, a, "", 200)
    /\ UNCHANGED outsideArticles

NextArticles ==
    \/ CreateArticle
    \/ UpdateArticle
    \/ SubmitForReview
    \/ Approve
    \/ Reject
    \/ ApproveArticle

SpecArticles == InitArticles /\ [][NextArticles]_vars

----------------------------------------------------------------------------
(* The user-management routes: promote and demote of the admin router and  *)
(* of server.js, and the bulk update of server.js.  Every user of UserIds  *)
(* exists.                                                                 *)

\* updates.role of a bulk update: absent, or a value of the schema's enum
SentRole == {""} \cup Roles

InitRoles ==
    /\ RendererOff
    /\ users = <<>>
    /\ original = <<>>
    /\ script = NoScript
    /\ login = NoLogin
    /\ credentials = [u \in UserIds |-> NoCredential]
    /\ roles \in [UserIds -> Roles]
    /\ articles = <<>>
    /\ reply = NoReply
    /\ FlightsOff

\* POST /users/:userId/promote, admin router lines 107-146: an owner falls
\* through the switch and is saved with the role he has
Promote ==
    /\ \E u \in UserIds, t \in UserIds :
          IF ~Authorize(u, {"admin", "owner"})
          THEN Replied("promote", u, t, "", 403) /\ roles' = roles
          ELSE IF roles[t] = "admin"
          THEN Replied("promote", u, t, "", 400) /\ roles' = roles
          ELSE /\ roles' = [roles EXCEPT ![t] = CASE @ = "user" -> "writer"
                                                  [] @ = "writer" -> "admin"
                                                  [] OTHER -> @]
               /\ Replied("promote", u, t, "", 200)
    /\ UNCHANGED outsideRoles

\* POST /users/:userId/demote, admin router lines 149-190
Demote ==
    /\ \E u \in UserIds, t \in UserIds :
          IF ~Authorize(u, {"admin", "owner"})
          THEN Replied("demote", u, t, "", 403) /\ roles' = roles
          ELSE IF roles[t] = "user"
          THEN Replied("demote", u, t, "", 400) /\ roles' = roles
          ELSE IF roles[t] = "owner"
          THEN Replied("demote", u, t, "", 403) /\ roles' = roles
          ELSE /\ roles' = [roles EXCEPT ![t] = IF @ = "admin" THEN "writer" ELSE "user"]
               /\ Replied("demote", u, t, "", 200)
    /\ UNCHANGED outsideRoles

\* PUT /api/users/:id/promote, server.js lines 282-320
PromoteUser ==
    /\ \E u \in UserIds, t \in UserIds :
          IF ~Authorize(u, {"admin", "owner"})
          THEN Replied("promote", u, t, "", 403) /\ roles' = roles
          ELSE IF roles[t] \in {"admin", "owner"}
          THEN Replied("promote", u, t, "", 400) /\ roles' = roles
          ELSE /\ roles' = [roles EXCEPT ![t] = IF @ = "writer" THEN "admin" ELSE "writer"]
               /\ Replied("promote", u, t, "", 200)
    /\ UNCHANGED outsideRoles

\* PUT /api/users/:id/demote, server.js lines 323-363
DemoteUser ==
    /\ \E u \in UserIds, t \in UserIds :
          IF ~Authorize(u, {"admin", "owner"})
          THEN Replied("demote", u, t, "", 403) /\ roles' = roles
          ELSE IF roles[t] = "owner" /\ roles[u] # "owner"
          THEN Replied("demote", u, t, "", 403) /\ roles' = roles
          ELSE IF roles[t] = "user"
          THEN Replied("demote", u, t, "", 400) /\ roles' = roles
          ELSE /\ roles' = [roles EXCEPT ![t] = IF @ = "writer" THEN "user" ELSE "writer"]
               /\ Replied("demote", u, t, "", 200)
    /\ UNCHANGED outsideRoles

\* PUT /api/users/bulk-update, server.js lines 394-441, with updates that hold
\* a role or not; the users are distinct documents, so the order in which the
\* saves of the map are done does not show
BulkUpdate ==
    /\ \E u \in UserIds, userIds \in SUBSET UserIds, role \in SentRole :
          IF ~Authorize(u, {"admin", "owner"})
          THEN Replied("bulk-update", u, 0, role, 403) /\ roles' = roles
          ELSE IF userIds = {}
          THEN Replied("bulk-update", u, 0, role, 400) /\ roles' = roles
          ELSE IF role \notin {"", "admin", "owner"} /\ u \in userIds
          THEN Replied("bulk-update", u, 0, role, 400) /\ roles' = roles
          ELSE /\ roles' = [t \in UserIds |->
                               IF /\ t \in userIds
                                  /\ ~(roles[t] = "owner" /\ roles[u] # "owner")
                                  /\ role # ""
                               THEN role ELSE roles[t]]
               /\ Replied("bulk-update", u, 0, role, 200)
    /\ UNCHANGED outsideRoles

NextRoles ==
    \/ Promote
    \/ Demote
    \/ PromoteUser
    \/ DemoteUser
    \/ BulkUpdate

SpecRoles == InitRoles /\ [][NextRoles]_vars

----------------------------------------------------------------------------
(* The like route.  The handler reads the article (findById), changes the  *)
(* document it holds and saves it after other requests may have been       *)
(* served.  save() sends what the handler changed: likedBy.push is a $push *)
(* on the stored array, the assignment of likes a $set of the value        *)
(* computed from the document read, the assignment of a new likedBy array  *)
(* a $set that is refused (VersionError) when the stored __v is no longer  *)
(* the one read; every change of the array increments __v.                 *)

\* array.some(id => id === u)
Some(array, u) == \E i \in DOMAIN array : array[i] = u

RECURSIVE Without(_, _)
\* array.filter(id => id !== u)
Without(array, u) ==
    IF array = <<>> THEN <<>>
    ELSE IF Head(array) = u THEN Without(Tail(array), u)
    ELSE <<Head(array)>> \o Without(Tail(array), u)

\* new Notification({type, targetUsers, by, readBy: []})
Notification(type, targetUsers, by) ==
    [type |-> type, targetUsers |-> targetUsers, by |-> by, readBy |-> <<>>, version |-> 0]

\* notifyArticleLike, utils/notifications.js lines 140-146
notifyArticleLike(authorId, likerId) ==
    notifications' = Append(notifications, Notification({}, {authorId}, likerId))

InFlight == {h \in HandlerIds : handlers[h].route # "none"}

\* h is the first free handler and the run may take one more request of at
\* most `limit`
Accepting(h, limit) ==
    /\ handlers[h] = NoRequest
    /\ \A g \in HandlerIds : g < h => handlers[g] # NoRequest
    /\ served + Cardinality(InFlight) < limit

InitLikes ==
    /\ RendererOff
    /\ users = <<>>
    /\ original = <<>>
    /\ script = NoScript
    /\ login = NoLogin
    /\ credentials = [u \in UserIds |-> NoCredential]
    /\ roles = [u \in UserIds |-> "user"]
    /\ \E k \in ArticleIds, author \in UserIds :
          articles = [a \in 1..k |-> Article(author, "published")]
    /\ reply = NoReply
    /\ FlightsOff

\* POST /:id/like, comments.js lines 984-990: the article is read
LikeFind ==
    /\ \E h \in HandlerIds, u \in UserIds, a \in ArticleIds :
          /\ Accepting(h, MaxRequests)
          /\ IF a \notin DOMAIN articles
             THEN /\ Replied("like", u, a, "", 404)
                  /\ UNCHANGED handlers
             ELSE /\ handlers' = [handlers EXCEPT ![h] =
                         [route |-> "like", user |-> u, target |-> a, doc |-> articles[a],
                          todo |-> {}]]
                  /\ UNCHANGED reply
    /\ UNCHANGED <<articles, served, notifications>>
    /\ UNCHANGED outsideLikes

\* POST /:id/like, comments.js lines 992-1024: the like or unlike on the
\* document read, the notification of the author, the save and the answer
LikeSave ==
    /\ \E h \in HandlerIds :
          /\ handlers[h].route = "like"
          /\ LET u == handlers[h].user
                 a == handlers[h].target
                 doc == handlers[h].doc
             IN IF Some(doc.likedBy, u)
                THEN /\ IF articles[a].version # doc.version
                        THEN Replied("like", u, a, "", 500) /\ articles' = articles
                        ELSE /\ articles' = [articles EXCEPT
                                    ![a].likedBy = Without(doc.likedBy, u),
                                    ![a].likes = doc.likes - 1,
                                    ![a].version = @ + 1]
                             /\ Replied("like", u, a, "unliked", 200)
                     /\ UNCHANGED notifications
                ELSE /\ IF doc.author # u
                        THEN notifyArticleLike(doc.author, u)
                        ELSE UNCHANGED notifications
                     /\ articles' = [articles EXCEPT
                            ![a].likedBy = Append(@, u),
                            ![a].likes = doc.likes + 1,
                            ![a].version = @ + 1]
                     /\ Replied("like", u, a, "liked", 200)
          /\ handlers' = [handlers EXCEPT ![h] = NoRequest]
          /\ served' = served + 1
    /\ UNCHANGED outsideLikes

NextLikes ==
    \/ LikeFind
    \/ LikeSave

SpecLikes == InitLikes /\ [][NextLikes]_vars

\* the like requests served one after the other
NextLikesInTurn ==
    \/ InFlight = {} /\ LikeFind
    \/ LikeSave

SpecLikesInTurn == InitLikes /\ [][NextLikesInTurn]_vars

----------------------------------------------------------------------------
(* The notification routes: create, mark as read, read-all.  The read      *)
(* routes read the notifications (findById, find) and save them later;     *)
(* readBy.push is a $push on the stored array.  A notification's id is its *)
(* index in the collection.                                                *)

MaxNotifications == 2

MaxReads == 3

NotificationIds == 1..MaxNotifications

\* req.body.type of a new notification
SentTypes == {{}, {"writer", "admin"}}

\* type: { $in: [userRole] } or targetUsers: userId; isRoleTargeted || isUserTargeted
Targeted(coll, n, u) == roles[u] \in coll[n].type \/ u \in coll[n].targetUsers

\* the filter of GET /, read-all and unread-count, lines 1485-1491: the
\* notifications that count as unread for u
Unread(coll, u) == {n \in DOMAIN coll : Targeted(coll, n, u) /\ ~Some(coll[n].readBy, u)}

InitNotifications ==
    /\ RendererOff
    /\ users = <<>>
    /\ original = <<>>
    /\ script = NoScript
    /\ login = NoLogin
    /\ credentials = [u \in UserIds |-> NoCredential]
    /\ roles \in [UserIds -> {"user", "admin"}]
    /\ articles = <<>>
    /\ reply = NoReply
    /\ FlightsOff

\* POST / (notification), comments.js lines 1300-1368
CreateNotification ==
    /\ \E u \in UserIds, type \in SentTypes, targetUsers \in SUBSET UserIds :
          IF ~Authorize(u, {"writer", "admin", "owner"})
          THEN Replied("notify", u, 0, "", 403) /\ UNCHANGED notifications
          ELSE IF type = {} /\ targetUsers = {}
          THEN Replied("notify", u, 0, "", 400) /\ UNCHANGED notifications
          ELSE /\ Len(notifications) < MaxNotifications
               /\ notifications' = Append(notifications, Notification(type, targetUsers, u))
               /\ Replied("notify", u, Len(notifications) + 1, "", 201)
    /\ UNCHANGED <<handlers, served>>
    /\ UNCHANGED outsideNotifications

\* PUT /:id/read, comments.js lines 1378-1404: the notification is read and
\* the request answered unless the user is to be added; of the document read
\* the handler uses nothing after that
ReadFind ==
    /\ \E h \in HandlerIds, u \in UserIds, n \in NotificationIds :
          /\ Accepting(h, MaxReads)
          /\ IF n \notin DOMAIN notifications
             THEN Replied("read", u, n, "", 404) /\ UNCHANGED handlers
             ELSE IF ~Targeted(notifications, n, u)
             THEN Replied("read", u, n, "", 403) /\ UNCHANGED handlers
             ELSE IF Some(notifications[n].readBy, u)
             THEN Replied("read", u, n, "already", 200) /\ UNCHANGED handlers
             ELSE /\ handlers' = [handlers EXCEPT ![h] =
                         [route |-> "read", user |-> u, target |-> n,
                          doc |-> <<>>, todo |-> {n}]]
                  /\ UNCHANGED reply
    /\ UNCHANGED <<served, notifications>>
    /\ UNCHANGED outsideNotifications

\* PUT /:id/read, comments.js lines 1406-1411: push, save and the answer
ReadSave ==
    /\ \E h \in HandlerIds :
          /\ handlers[h].route = "read"
          /\ LET u == handlers[h].user
                 n == handlers[h].target
             IN /\ notifications' = [notifications EXCEPT
                       ![n].readBy = Append(@, u), ![n].version = @ + 1]
                /\ Replied("read", u, n, "", 200)
          /\ handlers' = [handlers EXCEPT ![h] = NoRequest]
          /\ served' = served + 1
    /\ UNCHANGED outsideNotifications

\* PUT /read-all, comments.js lines 1424-1443: the unread notifications of
\* the user are read
ReadAllFind ==
    /\ \E h \in HandlerIds, u \in UserIds :
          /\ Accepting(h, MaxReads)
          /\ IF Unread(notifications, u) = {}
             THEN Replied("read-all", u, 0, "", 200) /\ UNCHANGED handlers
             ELSE /\ handlers' = [handlers EXCEPT ![h] =
                         [route |-> "read-all", user |-> u, target |-> 0,
                          doc |-> <<>>, todo |-> Unread(notifications, u)]]
                  /\ UNCHANGED reply
    /\ UNCHANGED <<served, notifications>>
    /\ UNCHANGED outsideNotifications

\* PUT /read-all, comments.js lines 1447-1459: one save of the map, and the
\* answer when all are done
ReadAllSave ==
    /\ \E h \in HandlerIds :
          /\ handlers[h].route = "read-all"
          /\ \E n \in handlers[h].todo :
                /\ notifications' = [notifications EXCEPT
                       ![n].readBy = Append(@, handlers[h].user), ![n].version = @ + 1]
                /\ IF handlers[h].todo = {n}
                   THEN /\ handlers' = [handlers EXCEPT ![h] = NoRequest]
                        /\ served' = served + 1
                        /\ Replied("read-all", handlers[h].user, 0, "", 200)
                   ELSE /\ handlers' = [handlers EXCEPT ![h].todo = @ \ {n}]
                        /\ UNCHANGED <<served, reply>>
    /\ UNCHANGED outsideNotifications

NextNotifications ==
    \/ CreateNotification
    \/ ReadFind
    \/ ReadSave
    \/ ReadAllFind
    \/ ReadAllSave

SpecNotifications == InitNotifications /\ [][NextNotifications]_vars

\* the read requests served one after the other
NextNotificationsInTurn ==
    \/ CreateNotification
    \/ InFlight = {} /\ ReadFind
    \/ ReadSave
    \/ InFlight = {} /\ ReadAllFind
    \/ ReadAllSave

SpecNotificationsInTurn == InitNotifications /\ [][NextNotificationsInTurn]_vars

----------------------------------------------------------------------------
(* Properties.                                                             *)

Idle == stack = <<>>

RECURSIVE SeqToSet(_)
SeqToSet(q) == IF q = <<>> THEN {} ELSE {Head(q)} \cup SeqToSet(Tail(q))

\* the children of every output container on the display surface
PanelChildren == UNION {SeqToSet(controls[i].panel) : i \in DOMAIN controls}

\* every token the renderer has attached to the display surface
AttachedTokens == SeqToSet(surface) \cup UNION {SeqToSet(ch.body) : ch \in PanelChildren}

(* C1: whatever the data fields hold, the markup the renderer attaches to  *)
(* the display surface holds no script element, no inline event handler    *)
(* and no javascript: URL.                                                 *)
C1_AttachedMarkupInert == \A t \in AttachedTokens : ~Active(t)

\* the part of C1 that the code keeps: the markup of the document itself
SanitizedMarkupInert == \A t \in SeqToSet(surface) : ~Active(t)

(* C2: as long as no render has set runCode, no run control or result      *)
(* panel is attached and no evaluation is running or has run.              *)
C2_NoExecutionWithoutFlag == ~flagEver => (DOMAIN controls = {} /\ stack = <<>>)

\* an executable code block is on the surface and runCode was never set
C2_Witness ==
    /\ ~flagEver
    /\ \E i \in ExecutableCode(surface) : TextContent(surface, i) = SrcNested

(* C3: the diagnostics captured for an evaluation are the console calls    *)
(* of that evaluation: no entry made by another evaluation is in its       *)
(* outputs, while it runs or in its result.                                *)
C3_CaptureIsolated ==
    /\ \A n \in 1..Len(stack) :
          \A e \in SeqToSet(stack[n].outputs) : e.by = n
    /\ \A ch \in PanelChildren :
          \A e \in SeqToSet(ch.outputs) : e.by = ch.by

(* C4: when the evaluated source throws (at run time or when it is         *)
(* parsed), the handler returns to its caller with the console restored,   *)
(* the markup of the page untouched, and the block's result panel ending   *)
(* with an output whose error entry is the failure description.            *)
ThrowStep ==
    /\ Running /\ Top.pc <= Len(Ops) /\ NextOp.op = "throw"
    /\ stack' # stack

C4_FailureRecorded ==
    [][ThrowStep =>
          LET b == Top.blk
              panel == controls'[b].panel
          IN /\ stack' = SubSeq(stack, 1, Len(stack) - 1)
             /\ console' = Top.orig
             /\ surface' = surface
             /\ \A i \in DOMAIN controls \ {b} : controls'[i] = controls[i]
             /\ panel # <<>>
             /\ panel[Len(panel)].kind = "code-output"
             /\ Entry("error", "Error: " \o NextOp.text, Len(stack))
                   \in SeqToSet(panel[Len(panel)].outputs)]_vars

\* what the code keeps of C4: a thrown Error, or a thrown value that String()
\* converts, is recorded, and the console is restored
PrintableFailureRecorded ==
    [][(ThrowStep /\ NextOp.ch # "unprintable") =>
          LET b == Top.blk
              panel == controls'[b].panel
          IN /\ stack' = SubSeq(stack, 1, Len(stack) - 1)
             /\ console' = Top.orig
             /\ surface' = surface
             /\ panel # <<>>
             /\ panel[Len(panel)].kind = "code-output"
             /\ Entry("error", "Error: " \o NextOp.text, Len(stack))
                   \in SeqToSet(panel[Len(panel)].outputs)]_vars

(* C5: a run of `console.log("hi"); 42` shows the log entry "hi" and the   *)
(* return value 42.                                                        *)
C5_FinalValueCaptured ==
    \A i \in DOMAIN controls :
       controls[i].code = SrcHi =>
          \A ch \in SeqToSet(controls[i].panel) :
             /\ Entry("log", "hi", ch.by) \in SeqToSet(ch.outputs)
             /\ ch.hasResult
             /\ ch.result = "42"

(* C6: when no evaluation is running, a result panel holds at most one     *)
(* result.                                                                 *)
C6_OneResult == Idle => \A i \in DOMAIN controls : Len(controls[i].panel) <= 1

(* C7: for a document the converter accepts, the top-level elements of the *)
(* output are, in order, one per block that is not skipped (unknown kind,  *)
(* image without file.url, embed without URL).                             *)
RECURSIVE TopLevelFrom(_, _, _)
TopLevelFrom(ts, i, depth) ==
    IF i > Len(ts) THEN <<>>
    ELSE IF ts[i].k = "open"
         THEN (IF depth = 0 THEN <<ts[i]>> ELSE <<>>) \o TopLevelFrom(ts, i + 1, depth + 1)
    ELSE IF ts[i].k = "close" THEN TopLevelFrom(ts, i + 1, depth - 1)
    ELSE (IF depth = 0 THEN <<ts[i]>> ELSE <<>>) \o TopLevelFrom(ts, i + 1, depth)

TopLevel(ts) == TopLevelFrom(ts, 1, 0)

Skipped(b) ==
    \/ b.type \notin KnownTypes
    \/ b.type = "image" /\ b.data.fileUrl = ""
    \/ b.type = "embed" /\ b.data.embed = "" /\ b.data.serviceUrl = ""

\* the tag and the class that mark the element of a block of each kind
RootOf(b) ==
    CASE b.type = "paragraph" -> <<"p", "article-paragraph">>
      [] b.type = "header" -> <<"h" \o ToString(HeaderLevel(b.data)), "article-heading">>
      [] b.type = "list" ->
            <<IF b.data.style = "ordered" THEN "ol" ELSE "ul", "article-list">>
      [] b.type = "quote" -> <<"figure", "article-quote">>
      [] b.type = "image" -> <<"figure", "article-image">>
      [] b.type = "code" -> <<"div", "article-code">>
      [] b.type = "embed" -> <<"div", "article-embed">>
      [] b.type = "delimiter" -> <<"hr", "article-delimiter">>
      [] b.type = "table" -> <<"div", "article-table-wrapper">>
      [] b.type = "checklist" -> <<"div", "article-checklist">>

RECURSIVE ExpectedRoots(_)
ExpectedRoots(blocks) ==
    IF blocks = <<>> THEN <<>>
    ELSE (IF Skipped(Head(blocks)) THEN <<>> ELSE <<RootOf(Head(blocks))>>)
         \o ExpectedRoots(Tail(blocks))

C7_OneElementPerBlock ==
    (html.called /\ content.kind = "doc" /\ ~html.threw) =>
        LET top == TopLevel(html.html)
            want == ExpectedRoots(content.blocks)
        IN /\ Len(top) = Len(want)
           /\ \A k \in 1..Len(top) :
                 /\ top[k].k \in {"open", "void"}
                 /\ top[k].tag = want[k][1]
                 /\ want[k][2] \in top[k].cls

\* two blocks of different kinds, a skipped one before a rendered one
C7_Witness ==
    /\ html.called /\ ~html.threw
    /\ content.kind = "doc"
    /\ Len(content.blocks) = MaxBlocks
    /\ Skipped(content.blocks[1])
    /\ content.blocks[MaxBlocks].type = "table"
    /\ Len(TopLevel(html.html)) = MaxBlocks - 1

(* C8: a render of an absent or malformed document leaves the placeholder  *)
(* on the display surface.                                                 *)
C8_PlaceholderForAbsent ==
    content.kind \in {"null", "undefined", "noblocks", "badblocks"} => surface = Placeholder

(* C9: a render of a document without blocks leaves the placeholder on the *)
(* display surface.                                                        *)
C9_PlaceholderForEmpty ==
    (content.kind = "doc" /\ content.blocks = <<>>) => surface = Placeholder

(* C10: a render of a document never leaves the error message for the      *)
(* whole document on the display surface.                                  *)
C10_NoFallbackForOneBlock ==
    (content.kind = "doc" /\ Idle) => surface # ErrorMarkup

----------------------------------------------------------------------------
(* Properties of the converter's arms.                                     *)

UnknownKind(b) == ~b.isNull /\ b.type \notin KnownTypes

KnownKind(b) == ~UnknownKind(b)

RECURSIVE TypesOf(_)
TypesOf(blocks) ==
    IF blocks = <<>> THEN <<>> ELSE <<Head(blocks).type>> \o TypesOf(Tail(blocks))

(* C11: the converter's result for a document is its result for the same   *)
(* document without the blocks of unknown kind (same markup, and it throws *)
(* only if that one throws), and when it returns it has written one        *)
(* diagnostic per block of unknown kind, in order.                         *)
C11_UnknownKindSkipped ==
    (html.called /\ content.kind = "doc") =>
        LET known == convertToHTML(Content("doc", SelectSeq(content.blocks, KnownKind)))
        IN /\ html.threw = known.threw
           /\ html.html = known.html
           /\ ~html.threw => html.log = TypesOf(SelectSeq(content.blocks, UnknownKind))

\* a block of unknown kind before a rendered block: one diagnostic, one element
C11_Witness ==
    /\ html.called /\ ~html.threw
    /\ content.kind = "doc"
    /\ Len(content.blocks) = 2
    /\ content.blocks[1].type = "video"
    /\ content.blocks[2].type = "header"
    /\ html.log = <<"video">>
    /\ Len(TopLevel(html.html)) = 1

IsCode(b) == ~b.isNull /\ b.type = "code"

(* C12: in the converter's output the code element of the k-th code block  *)
(* carries the class language-X exactly when the block has a language X,   *)
(* the class executable-code exactly when that language is javascript or   *)
(* js, and no other class.                                                 *)
C12_CodeClasses ==
    (html.called /\ content.kind = "doc" /\ ~html.threw) =>
        LET codes == InOrder(PreCode(html.html))
            want == SelectSeq(content.blocks, IsCode)
        IN /\ Len(codes) = Len(want)
           /\ \A k \in 1..Len(codes) :
                 LET cls == html.html[codes[k]].cls
                     lang == want[k].data.language
                 IN /\ ("language-" \o lang \in cls) <=> (lang # "")
                    /\ ("executable-code" \in cls) <=> (lang \in {"javascript", "js"})
                    /\ cls \subseteq {"executable-code", "language-" \o lang}

\* a python block and a javascript block, converted
C12_Witness ==
    /\ html.called /\ ~html.threw
    /\ content.kind = "doc"
    /\ Len(content.blocks) = 2
    /\ IsCode(content.blocks[1]) /\ content.blocks[1].data.language = "python"
    /\ IsCode(content.blocks[2]) /\ content.blocks[2].data.language = "javascript"
    /\ Cardinality(PreCode(html.html)) = 2
    /\ \E i \in PreCode(html.html) : html.html[i].cls = {"language-python"}
    /\ \E i \in PreCode(html.html) :
          html.html[i].cls = {"executable-code", "language-javascript"}

IsEmbed(b) == ~b.isNull /\ b.type = "embed"

HasUrl(b) == IsEmbed(b) /\ (b.data.embed # "" \/ b.data.serviceUrl # "")

NoUrl(b) == IsEmbed(b) /\ ~HasUrl(b)

\* the iframe elements that are the first child of an embed container
EmbedFrames(ts) ==
    {i \in 2..Len(ts) : /\ ts[i].k = "open" /\ ts[i].tag = "iframe"
                        /\ "article-embed-container" \in ts[i - 1].cls}

(* C13: in the converter's output the embed blocks that have a URL (embed, *)
(* or service.url when embed is absent) have, in order, one iframe each,   *)
(* whose src is that URL, inside the container with the 16:9 padding       *)
(* inside the embed element; an embed block without URL has no element,    *)
(* and a document of such blocks only converts to the empty markup.        *)
C13_EmbedResolved ==
    (html.called /\ content.kind = "doc" /\ ~html.threw) =>
        LET frames == InOrder(EmbedFrames(html.html))
            want == SelectSeq(content.blocks, HasUrl)
            marked(c) == {i \in 1..Len(html.html) : c \in html.html[i].cls}
        IN /\ Len(frames) = Len(want)
           /\ Cardinality(marked("article-embed")) = Len(want)
           /\ Cardinality(marked("article-embed-container")) = Len(want)
           /\ \A k \in 1..Len(frames) :
                 LET i == frames[k]
                     d == want[k].data
                     url == IF d.embed # "" THEN d.embed ELSE d.serviceUrl
                 IN /\ {a.v : a \in {x \in html.html[i].attrs : x.n = "src"}} = {url}
                    /\ i >= 3
                    /\ html.html[i - 1] =
                          Open("div", {"article-embed-container"},
                               {Attr("style", "position: relative; width: 100%; max-width: 900px; overflow: hidden; padding-top: 56.25%;")})
                    /\ html.html[i - 2] = Open("div", {"article-embed"}, {})
           /\ (SelectSeq(content.blocks, NoUrl) = content.blocks) => html.html = <<>>

\* an embed block without URL before one with both fields: one iframe, embed wins
C13_Witness ==
    /\ html.called /\ ~html.threw
    /\ content.kind = "doc"
    /\ Len(content.blocks) = 2
    /\ NoUrl(content.blocks[1])
    /\ content.blocks[2] = Embed(VideoUrl, ServiceUrl)
    /\ Cardinality(EmbedFrames(html.html)) = 1
    /\ \E i \in EmbedFrames(html.html) : Attr("src", VideoUrl) \in html.html[i].attrs

\* a document of embed blocks without URL, converted to nothing
C13_WitnessNoUrl ==
    /\ html.called /\ content.kind = "doc"
    /\ content.blocks = <<D("embed"), D("embed")>>
    /\ html.html = <<>>

IsTable(b) == ~b.isNull /\ b.type = "table"

\* the content is an array whose entries are arrays
RowsOfCells(b) ==
    /\ b.data.hasContent
    /\ \A r \in 1..Len(b.data.content) : b.data.content[r].isArray

\* the elements with tag `tag` between the tags of the element opened at i
Inside(ts, i, tag) ==
    InOrder({j \in (i + 1)..(ElementEnd(ts, i) - 1) : ts[j].k = "open" /\ ts[j].tag = tag})

(* C14: in the converter's output the table of the k-th table block, when  *)
(* the block's content is a sequence of rows of cells, has one tr per row  *)
(* in the order of the rows, and in it one td per cell in the order of the *)
(* cells, each holding its cell.                                           *)
C14_TableShape ==
    (html.called /\ content.kind = "doc" /\ ~html.threw) =>
        LET ts == html.html
            tables == InOrder({i \in 1..Len(ts) : ts[i].k = "open" /\ ts[i].tag = "table"})
            want == SelectSeq(content.blocks, IsTable)
        IN /\ Len(tables) = Len(want)
           /\ \A k \in 1..Len(tables) :
                 RowsOfCells(want[k]) =>
                    LET rows == want[k].data.content
                        trs == Inside(ts, tables[k], "tr")
                    IN /\ Len(trs) = Len(rows)
                       /\ \A r \in 1..Len(trs) :
                             LET tds == Inside(ts, trs[r], "td")
                             IN /\ Len(tds) = Len(rows[r].cells)
                                /\ \A c \in 1..Len(tds) :
                                      SubSeq(ts, tds[c] + 1, ElementEnd(ts, tds[c]) - 1)
                                         = Markup(rows[r].cells[c])

\* the table [[a, b], [c, d]], converted: 2 rows of 2 cells
C14_Witness ==
    /\ html.called /\ ~html.threw
    /\ content.kind = "doc"
    /\ content.blocks = <<Table(<<Row(TRUE, <<"a", "b">>), Row(TRUE, <<"c", "d">>)>>)>>
    /\ Len(Inside(html.html, 2, "tr")) = 2
    /\ Len(Inside(html.html, 2, "td")) = 4
    /\ JoinText(html.html, 1, Len(html.html)) = "abcd"

----------------------------------------------------------------------------
(* Properties of the renders.                                              *)

\* what a render of c alone puts on an empty display surface
Shows(c) ==
    LET conv == convertToHTML(c)
    IN IF conv.threw THEN ErrorMarkup ELSE Highlight(Sanitize(conv.html))

(* C15: after a render nothing of an earlier render is left on the display *)
(* surface: every element on it is of the markup of the last document (of  *)
(* the placeholder when that document is absent), and every run control    *)
(* and result panel belongs to an executable element of that markup.       *)
C15_NothingLeftOver ==
    content # NotRendered =>
        /\ SeqToSet(surface) \subseteq SeqToSet(Shows(content))
        /\ DOMAIN controls \subseteq ExecutableCode(Shows(content))

----------------------------------------------------------------------------
(* Properties of the password-hashing script.                              *)

\* a stored password the script takes for plain text
PlainText(password) == password # <<>> /\ ~StartsWithDollar2(password)

(* C16: when the script has run, every user whose stored password was the  *)
(* plain text P and whom the script has updated has a stored password      *)
(* against which P compares true.                                          *)
C16_MigratedPasswordMatches ==
    script.phase = "done" =>
        \A u \in UserIds :
           (PlainText(original[u]) /\ users[u] # original[u]) =>
               BcryptCompare(original[u], users[u])

\* the users a finished run has updated: their password was plain text when the
\* run started and the update did not fail
Updated == {u \in UserIds : PlainText(script.found[u]) /\ u \notin script.failed}

C17_WitnessFailure ==
    /\ script.phase = "done"
    /\ script.failed = {1}
    /\ 2 \in Updated
    /\ users[2] # script.found[2]

----------------------------------------------------------------------------
(* Properties of the instrumentation.                                      *)

IsJsCode(b) == IsCode(b) /\ b.data.language \in {"javascript", "js"}

(* C18: after a render of a document with runCode set, the elements with a *)
(* run control and a result panel are, one for one, the code elements of   *)
(* the document's code blocks with language javascript or js.              *)
C18_OnlyJsCodeBlocksInstrumented ==
    (Idle /\ runCode /\ content.kind = "doc" /\ html.called /\ ~html.threw) =>
        /\ Cardinality(DOMAIN controls) = Len(SelectSeq(content.blocks, IsJsCode))
        /\ DOMAIN controls \subseteq PreCode(surface)

\* the evaluations of block i that have started and not finished
Evaluations(i) == {n \in 1..Len(stack) : stack[n].kind = "handler" /\ stack[n].blk = i}

(* C19: at most one evaluation of a block is running at a time.            *)
C19_OneEvaluationAtATime ==
    \A i \in DOMAIN controls : Cardinality(Evaluations(i)) <= 1

\* the rest of the state machine: a panel is empty until its block is triggered,
\* and a handler that returns leaves a result in the panel of its block
PanelFollowsTrigger ==
    [][/\ \A i \in DOMAIN controls' :
             (i \notin DOMAIN controls \/ controls[i].panel = <<>>) =>
                 (controls'[i].panel = <<>> \/ Evaluations(i) # {})
       /\ (Running /\ Len(stack') < Len(stack)) => controls'[Top.blk].panel # <<>>]_vars

\* the code blocks the claim says a render evaluates by itself
AutoJsCode(b) == IsJsCode(b) /\ AutoExecute(b.data.code)

(* C20: when the effect of a render with runCode set has gone through the  *)
(* executable elements, the blocks that have been evaluated are the        *)
(* executable blocks whose source text holds '<iframe', '<html' or         *)
(* 'document.write', each evaluated once.                                  *)
C20_AutoExecutedBySourceText ==
    (Len(stack) = 1 /\ stack[1].kind = "effect" /\ stack[1].todo = <<>>) =>
        /\ Cardinality({i \in DOMAIN controls : controls[i].panel # <<>>})
              = Len(SelectSeq(content.blocks, AutoJsCode))
        /\ \A i \in DOMAIN controls : Len(controls[i].panel) <= 1

\* what the code keeps of C20: the test is made on the text content of the element
AutoExecutedByTextContent ==
    (Len(stack) = 1 /\ stack[1].kind = "effect" /\ stack[1].todo = <<>>) =>
        \A i \in DOMAIN controls :
           /\ Len(controls[i].panel) <= 1
           /\ (controls[i].panel # <<>>) <=> AutoExecute(TextContent(surface, i))

\* the handler of block b is entered in this step
Entered(b) ==
    /\ Len(stack') = Len(stack) + 1
    /\ stack'[Len(stack')].kind = "handler"
    /\ stack'[Len(stack')].blk = b

\* the handler of block b returns in this step
Returned(b) == Running /\ Top.blk = b /\ Len(stack') = Len(stack) - 1

(* C21: a step of the handler of a block (it is entered, it evaluates, it  *)
(* returns) leaves the run control and the result panel of every other     *)
(* block and the markup of the page as they are; entering clears the       *)
(* block's own panel and returning leaves a result in it.                  *)
C21_PanelScoped ==
    [][\A b \in DOMAIN controls' :
          (Entered(b) \/ (Running /\ Top.blk = b)) =>
              /\ \A i \in DOMAIN controls \ {b} :
                    i \in DOMAIN controls' /\ controls'[i] = controls[i]
              /\ surface' = surface
              /\ Entered(b) => controls'[b].panel = <<>>
              /\ Returned(b) => controls'[b].panel # <<>>]_vars

\* two blocks have a result each: the second was run while the first had its own
C21_Witness ==
    /\ Idle
    /\ Cardinality(DOMAIN controls) = 2
    /\ \A i \in DOMAIN controls : Len(controls[i].panel) = 1
    /\ \E i, j \in DOMAIN controls : controls[i].code = SrcHi /\ controls[j].code = SrcBoom

----------------------------------------------------------------------------
(* Properties of the header and list arms.                                 *)

IsHeader(b) == ~b.isNull /\ b.type = "header"

(* C22: in the converter's output the element of the k-th header block has *)
(* the tag hN and the class article-heading-N, where N is the block's      *)
(* level when the level is present, whatever its value, and 2 when it is   *)
(* absent; the element is closed by the same tag.                          *)
C22_HeaderLevelPassedThrough ==
    (html.called /\ content.kind = "doc" /\ ~html.threw) =>
        LET ts == html.html
            heads == InOrder({i \in 1..Len(ts) : "article-heading" \in ts[i].cls})
            want == SelectSeq(content.blocks, IsHeader)
        IN /\ Len(heads) = Len(want)
           /\ \A k \in 1..Len(heads) :
                 LET level == want[k].data.level
                     N == IF level = <<>> THEN 2 ELSE level[1]
                     i == heads[k]
                 IN /\ ts[i].k = "open"
                    /\ ts[i].tag = "h" \o ToString(N)
                    /\ "article-heading-" \o ToString(N) \in ts[i].cls
                    /\ ElementEnd(ts, i) <= Len(ts)
                    /\ ts[ElementEnd(ts, i)] = Close("h" \o ToString(N))

\* what the code keeps of C22: the level 0 is read as an absent level
HeaderLevelOrTwo ==
    (html.called /\ content.kind = "doc" /\ ~html.threw) =>
        LET ts == html.html
            heads == InOrder({i \in 1..Len(ts) : "article-heading" \in ts[i].cls})
            want == SelectSeq(content.blocks, IsHeader)
        IN /\ Len(heads) = Len(want)
           /\ \A k \in 1..Len(heads) :
                 LET level == want[k].data.level
                     N == IF level = <<>> \/ level = <<0>> THEN 2 ELSE level[1]
                 IN /\ ts[heads[k]].tag = "h" \o ToString(N)
                    /\ ts[ElementEnd(ts, heads[k])] = Close("h" \o ToString(N))

IsList(b) == ~b.isNull /\ b.type = "list"

(* C23: in the converter's output the element of the k-th list block is ol *)
(* when the block's style is 'ordered' and ul otherwise, and holds one li  *)
(* per item, in order, whose content is the item when it is a string,      *)
(* otherwise its content field when it has one, otherwise its text field   *)
(* when it has one, otherwise the stringified item.                        *)
C23_ListItems ==
    (html.called /\ content.kind = "doc" /\ ~html.threw) =>
        LET ts == html.html
            lists == InOrder({i \in 1..Len(ts) : "article-list" \in ts[i].cls})
            want == SelectSeq(content.blocks, IsList)
        IN /\ Len(lists) = Len(want)
           /\ \A k \in 1..Len(lists) :
                 LET d == want[k].data
                     lis == Inside(ts, lists[k], "li")
                 IN /\ ts[lists[k]].tag = (IF d.style = "ordered" THEN "ol" ELSE "ul")
                    /\ Len(lis) = Len(d.items)
                    /\ \A n \in 1..Len(lis) :
                          LET item == d.items[n]
                              text == IF item.isString THEN item.str
                                      ELSE IF "content" \in item.has THEN item.content
                                      ELSE IF "text" \in item.has THEN item.text
                                      ELSE item.json
                          IN SubSeq(ts, lis[n] + 1, ElementEnd(ts, lis[n]) - 1) = Markup(text)

\* what the code keeps of C23: an empty content or text field is read as absent
ListItemsNonEmptyFields ==
    (html.called /\ content.kind = "doc" /\ ~html.threw) =>
        LET ts == html.html
            lists == InOrder({i \in 1..Len(ts) : "article-list" \in ts[i].cls})
            want == SelectSeq(content.blocks, IsList)
        IN /\ Len(lists) = Len(want)
           /\ \A k \in 1..Len(lists) :
                 LET d == want[k].data
                     lis == Inside(ts, lists[k], "li")
                 IN /\ ts[lists[k]].tag = (IF d.style = "ordered" THEN "ol" ELSE "ul")
                    /\ Len(lis) = Len(d.items)
                    /\ \A n \in 1..Len(lis) :
                          LET item == d.items[n]
                              text == IF item.isString THEN item.str
                                      ELSE IF item.content # "" THEN item.content
                                      ELSE IF item.text # "" THEN item.text
                                      ELSE item.json
                          IN SubSeq(ts, lis[n] + 1, ElementEnd(ts, lis[n]) - 1) = Markup(text)

----------------------------------------------------------------------------
(* Properties of the document and of the console.                          *)

C25_ConsoleRestored == Idle => console = 0

\* what the code keeps of C25: a handler that gets past its catch block restores
\* the console it found
ConsoleRestoredAfterCatch ==
    [][(Running /\ Len(stack') < Len(stack)
        /\ ~(Top.pc <= Len(Ops) /\ NextOp.op = "throw" /\ NextOp.ch = "unprintable"))
       => console' = Top.orig]_vars

\* the response of a login request that has just been answered
Answered == login' # login

\* login'.user has set a password, the last time through one of `routes`
SetThrough(routes) == credentials[login'.user].route \in routes

(* C26: a login of a user who has registered, reset or updated his         *)
(* password, the last time to P, succeeds with P and is rejected with any  *)
(* other password; and no stored password is the plain text.               *)
C26_CredentialRoundTrip ==
    [][/\ (Answered /\ SetThrough({"register", "reset", "update"})) =>
              (login'.status = 200 <=> login'.password = credentials[login'.user].password)
       /\ \A u \in DOMAIN users' : ~PlainText(users'[u])]_vars

\* the round trip of the password update route, whose save hashes once
UpdatedCredentialRoundTrip ==
    [][(Answered /\ SetThrough({"update"})) =>
           (login'.status = 200 <=> login'.password = credentials[login'.user].password)]_vars

\* no route stores a plain text, and a wrong password is always rejected
NoPlainTextNoWrongPassword ==
    [][/\ (Answered /\ SetThrough({"register", "reset", "update"})
              /\ login'.password # credentials[login'.user].password) => login'.status = 400
       /\ \A u \in DOMAIN users' : ~PlainText(users'[u])]_vars

\* the status of article a, "none" while it does not exist
StatusOf(coll, a) == IF a \in DOMAIN coll THEN coll[a].status ELSE "none"

\* the request just answered is a `route` request on article a
RequestOn(route, a) == reply'.route = route /\ reply'.target = a

\* the request just answered has left article a as it was and was refused
Refused(a) == StatusOf(articles', a) = StatusOf(articles, a) /\ reply'.code >= 400

\* the request on article a moves it from `from` to `to` when `allowed`, and is
\* refused otherwise
Moves(a, allowed, from, to) ==
    IF allowed /\ StatusOf(articles, a) = from
    THEN StatusOf(articles', a) = to /\ reply'.code = 200
    ELSE Refused(a)

(* C27: an article becomes published only by an approve request of an      *)
(* admin or owner on a pending article; submit-for-review moves the        *)
(* author's own draft to pending, reject moves a pending article to draft, *)
(* and a submit, approve or reject in any other case is refused and leaves *)
(* the status as it was.                                                   *)
C27_ModerationWorkflow ==
    [][\A a \in ArticleIds :
         LET staff == reply'.user \in UserIds /\ roles[reply'.user] \in {"admin", "owner"}
             author == a \in DOMAIN articles /\ articles[a].author = reply'.user
         IN /\ (StatusOf(articles', a) = "published" /\ StatusOf(articles, a) # "published") =>
                   (RequestOn("approve", a) /\ staff /\ StatusOf(articles, a) = "pending")
            /\ RequestOn("submit", a) => Moves(a, author, "draft", "pending")
            /\ RequestOn("reject", a) => Moves(a, staff, "pending", "draft")
            /\ RequestOn("approve", a) => Moves(a, staff, "pending", "published")]_vars

\* the submit and reject routes on their own follow the workflow
SubmitAndRejectFollowWorkflow ==
    [][\A a \in ArticleIds :
         LET staff == reply'.user \in UserIds /\ roles[reply'.user] \in {"admin", "owner"}
             author == a \in DOMAIN articles /\ articles[a].author = reply'.user
         IN /\ RequestOn("submit", a) => Moves(a, author, "draft", "pending")
            /\ RequestOn("reject", a) => Moves(a, staff, "pending", "draft")]_vars

Owners(r) == {t \in UserIds : r[t] = "owner"}

\* the request just answered came from a user who is not an owner
ByNonOwner == reply'.user \in UserIds /\ roles[reply'.user] # "owner"

\* the request just answered came from an admin or an owner
ByStaff == reply'.user \in UserIds /\ roles[reply'.user] \in {"admin", "owner"}

\* the request just answered is a `route` request on a user whose role was one
\* of `from`
RoleRequest(route, t, from) ==
    reply'.route = route /\ reply'.target = t /\ roles[t] \in from

\* the role of t is what it was and the request was refused
RoleRefused(t) == roles'[t] = roles[t] /\ reply'.code >= 400

PromoteDemoteFollowPath ==
    \A t \in UserIds :
       /\ RoleRequest("promote", t, {"user"}) =>
              IF ByStaff THEN roles'[t] = "writer" ELSE RoleRefused(t)
       /\ RoleRequest("promote", t, {"writer"}) =>
              IF ByStaff THEN roles'[t] = "admin" ELSE RoleRefused(t)
       /\ RoleRequest("promote", t, {"admin"}) => RoleRefused(t)
       /\ RoleRequest("demote", t, {"admin"}) =>
              IF ByStaff THEN roles'[t] = "writer" ELSE RoleRefused(t)
       /\ RoleRequest("demote", t, {"writer"}) =>
              IF ByStaff THEN roles'[t] = "user" ELSE RoleRefused(t)
       /\ RoleRequest("demote", t, {"user"}) => RoleRefused(t)

(* C28: a promote, demote or bulk-update request of a user who is not an   *)
(* owner leaves the set of owners as it was; promote moves user to writer  *)
(* and writer to admin and refuses an admin, demote moves admin to writer  *)
(* and writer to user and refuses a user.                                  *)
C28_OwnerProtected ==
    [][/\ ByNonOwner => Owners(roles') = Owners(roles)
       /\ PromoteDemoteFollowPath]_vars

\* promote and demote requests on their own protect the owner role and follow
\* the path
PromoteDemoteProtectOwner ==
    [][/\ (ByNonOwner /\ reply'.route \in {"promote", "demote"}) =>
              Owners(roles') = Owners(roles)
       /\ PromoteDemoteFollowPath]_vars

\* the likes counter of every article is the number of entries of likedBy, no
\* user is twice in likedBy and no counter is negative
LikesConsistent(coll) ==
    \A a \in DOMAIN coll :
       /\ coll[a].likes = Len(coll[a].likedBy)
       /\ \A i, j \in DOMAIN coll[a].likedBy :
              coll[a].likedBy[i] = coll[a].likedBy[j] => i = j
       /\ coll[a].likes >= 0

\* a like request of a user who is in likedBy, answered without an error, has
\* removed him
SecondLikeRemoves ==
    \A a \in DOMAIN articles :
       (/\ reply'.route = "like" /\ reply'.target = a /\ reply'.code = 200
        /\ articles' # articles
        /\ Some(articles[a].likedBy, reply'.user)) =>
           ~Some(articles'[a].likedBy, reply'.user)

(* C29: whatever like requests are served and however they interleave, the *)
(* likes counter of every article is the number of entries of likedBy,     *)
(* likedBy holds no user twice and the counter is not negative; and a like *)
(* request of a user who has liked the article removes his like.           *)
C29_LikesConsistent ==
    [][LikesConsistent(articles') /\ SecondLikeRemoves]_vars

\* no user is twice in the readBy of a notification
ReadersOnce(coll) ==
    \A n \in DOMAIN coll :
       \A i, j \in DOMAIN coll[n].readBy : coll[n].readBy[i] = coll[n].readBy[j] => i = j

\* a mark-as-read request of user u on notification n has just been answered
MarkAnswered(u, n) ==
    /\ reply' # reply \/ served' # served
    /\ reply'.route = "read" /\ reply'.user = u /\ reply'.target = n

\* what the claim says of an answered mark-as-read request
MarkAsReadAnswer ==
    \A u \in UserIds, n \in DOMAIN notifications :
       MarkAnswered(u, n) =>
          /\ Some(notifications[n].readBy, u) => notifications' = notifications
          /\ reply'.code = 403 <=> ~Targeted(notifications, n, u)
          /\ reply'.code = 200 => n \notin Unread(notifications', u)

(* C30: whatever mark-as-read and read-all requests are served and however *)
(* they interleave, no user is twice in the readBy of a notification; a    *)
(* mark-as-read of a user who is already in readBy changes nothing, a      *)
(* mark-as-read of a user targeted neither by role nor by id is answered   *)
(* 403, and after an accepted mark-as-read the notification is not unread  *)
(* for the user.                                                           *)
C30_ReadByOnce ==
    [][ReadersOnce(notifications') /\ MarkAsReadAnswer]_vars

\* the refusal and the unread count do not depend on the interleaving
RefusedAndNoLongerUnread ==
    [][\A u \in UserIds, n \in DOMAIN notifications :
          MarkAnswered(u, n) =>
             /\ reply'.code = 403 <=> ~Targeted(notifications, n, u)
             /\ reply'.code = 200 => n \notin Unread(notifications', u)]_vars

====
